---- MODULE Spec2Model ----
(***************************************************************************)
(* The audio analysis pipeline of the Sonix visualizer                     *)
(* (sonix/src/components/Visualizer/AudioVisualizer.ts): the spectral      *)
(* feature extractor, the beat and drum detectors, the tempo tracker, the  *)
(* rhythm analyzer and the per-tick driver processAudioData.               *)
(*                                                                         *)
(* Numbers.  A JavaScript number is a fixed-point integer: the integer x   *)
(* stands for x / ONE.  NaN and Infinity are two integers outside the      *)
(* range of every value the pipeline computes, and every arithmetic        *)
(* operator below treats them as JavaScript does.  Times are integer       *)
(* milliseconds.                                                           *)
(*                                                                         *)
(* Arrays.  A typed array is a sequence of runs [n |-> count, v |-> value]:*)
(* n consecutive elements that all hold v.  <<>> is the array of length 0. *)
(***************************************************************************)
EXTENDS Integers, Sequences, FiniteSets, TLC

ONE == 100 * 100
NaN == 0 - (2000 * 1000000)
Infinity == 2000 * 1000000

Min(a, b) == IF a <= b THEN a ELSE b
Max(a, b) == IF a >= b THEN a ELSE b

IsNaN(x) == x = NaN

\* a + b and a - b of two numbers
FAdd(a, b) == IF IsNaN(a) \/ IsNaN(b) THEN NaN ELSE a + b
FSub(a, b) == IF IsNaN(a) \/ IsNaN(b) THEN NaN ELSE a - b

\* a * b of two numbers
FMul(a, b) == IF IsNaN(a) \/ IsNaN(b) THEN NaN ELSE (a * b) \div ONE

\* a * (num / den) for a literal factor such as 1.5 = 15 / 10
FScale(a, num, den) == IF IsNaN(a) THEN NaN ELSE (a * num) \div den

\* a / b of two numbers: 0 / 0 is NaN, x / 0 is +-Infinity
FDiv(a, b) ==
    IF IsNaN(a) \/ IsNaN(b) THEN NaN
    ELSE IF b = 0 THEN (IF a = 0 THEN NaN ELSE IF a > 0 THEN Infinity ELSE 0 - Infinity)
    ELSE IF b > 0 THEN (a * ONE) \div b
    ELSE 0 - ((a * ONE) \div (0 - b))

\* a / n of a number and an element count n
FDivN(a, n) ==
    IF IsNaN(a) THEN NaN
    ELSE IF n = 0 THEN (IF a = 0 THEN NaN ELSE IF a > 0 THEN Infinity ELSE 0 - Infinity)
    ELSE IF n > 0 THEN a \div n
    ELSE 0 - (a \div (0 - n))

\* comparisons: every comparison with NaN is false
FGt(a, b) == ~IsNaN(a) /\ ~IsNaN(b) /\ a > b
FGe(a, b) == ~IsNaN(a) /\ ~IsNaN(b) /\ a >= b
FLt(a, b) == ~IsNaN(a) /\ ~IsNaN(b) /\ a < b
FLe(a, b) == ~IsNaN(a) /\ ~IsNaN(b) /\ a <= b

\* Math.min, Math.max, Math.abs
FMin(a, b) == IF IsNaN(a) \/ IsNaN(b) THEN NaN ELSE Min(a, b)
FMax(a, b) == IF IsNaN(a) \/ IsNaN(b) THEN NaN ELSE Max(a, b)
FAbs(a) == IF IsNaN(a) THEN NaN ELSE IF a < 0 THEN 0 - a ELSE a

\* the largest r in lo..hi with r * r <= y
RECURSIVE IsqrtIn(_, _, _)
IsqrtIn(y, lo, hi) ==
    IF lo >= hi THEN lo
    ELSE LET mid == (lo + hi + 1) \div 2
         IN IF mid * mid <= y THEN IsqrtIn(y, mid, hi) ELSE IsqrtIn(y, lo, mid - 1)

\* Math.sqrt: sqrt(x / ONE) * ONE = sqrt(x * ONE); NaN for a negative number
FSqrt(x) ==
    IF IsNaN(x) \/ x < 0 THEN NaN
    ELSE IF x = Infinity THEN Infinity
    ELSE IsqrtIn(x * ONE, 0, 40000)

(***************************************************************************)
(* Typed arrays as runs                                                    *)
(***************************************************************************)
RECURSIVE LengthFrom(_, _)
LengthFrom(arr, k) == IF k > Len(arr) THEN 0 ELSE arr[k].n + LengthFrom(arr, k + 1)

\* arr.length
Length(arr) == LengthFrom(arr, 1)

\* the index of the first element of run k (0-based element indices)
RECURSIVE RunStart(_, _)
RunStart(arr, k) == IF k <= 1 THEN 0 ELSE RunStart(arr, k - 1) + arr[k - 1].n

\* how many elements of run k have an index in [a, b)
Overlap(arr, k, a, b) ==
    LET lo == Max(RunStart(arr, k), a)
        hi == Min(RunStart(arr, k) + arr[k].n, b)
    IN IF hi > lo THEN hi - lo ELSE 0

\* the run that holds element i, for 0 <= i < Length(arr)
RunOf(arr, i) == CHOOSE k \in 1..Len(arr) : RunStart(arr, k) <= i /\ i < RunStart(arr, k) + arr[k].n

\* arr[i], for 0 <= i < Length(arr)
At(arr, i) == arr[RunOf(arr, i)].v

\* the first index after i at which the array may change its value
RunEnd(arr, i) == RunStart(arr, RunOf(arr, i)) + arr[RunOf(arr, i)].n

\* sum of arr[i] * arr[i] for a <= i < b
RECURSIVE SumSqFrom(_, _, _, _)
SumSqFrom(arr, k, a, b) ==
    IF k > Len(arr) THEN 0
    ELSE LET c == Overlap(arr, k, a, b)
             rest == SumSqFrom(arr, k + 1, a, b)
         IN IF c = 0 THEN rest
            ELSE IF IsNaN(arr[k].v) THEN NaN
            ELSE FAdd(c * FMul(arr[k].v, arr[k].v), rest)

SumSq(arr, a, b) == SumSqFrom(arr, 1, a, b)

\* sum of arr[i] for a <= i < b
RECURSIVE SumFrom(_, _, _, _)
SumFrom(arr, k, a, b) ==
    IF k > Len(arr) THEN 0
    ELSE LET c == Overlap(arr, k, a, b)
             rest == SumFrom(arr, k + 1, a, b)
         IN IF c = 0 THEN rest
            ELSE IF IsNaN(arr[k].v) THEN NaN
            ELSE FAdd(c * arr[k].v, rest)

SumRange(arr, a, b) == SumFrom(arr, 1, a, b)

\* reduce((a, b) => a + b, 0) over a history buffer (a plain sequence of numbers)
\* (the additions are grouped by halves: the sum of these numbers is the same in
\* any grouping, and a NaN entry makes it NaN in any grouping)
RECURSIVE SumSeq(_)
SumSeq(s) ==
    IF Len(s) = 0 THEN 0
    ELSE IF Len(s) = 1 THEN FAdd(0, s[1])
    ELSE FAdd(SumSeq(SubSeq(s, 1, Len(s) \div 2)),
              SumSeq(SubSeq(s, (Len(s) \div 2) + 1, Len(s))))

\* push(x) with no shift(): the buffer grows without bound
PushUncapped(buf, x, cap) == Append(buf, x)

\* push(x) followed by shift() once the buffer is longer than cap
PushCapped(buf, x, cap) ==
    LET b == Append(buf, x) IN IF Len(b) > cap THEN Tail(b) ELSE b

(***************************************************************************)
(* ProfessionalAudioAnalyzer                                               *)
(***************************************************************************)
\* the analyzer's fields after construction
AnalyzerInit == [previousSpectrum |-> <<>>, spectralFluxBuffer |-> <<>>]

calculateEnergy(spectrum) ==
    FSqrt(FDivN(SumSq(spectrum, 0, Length(spectrum)), Length(spectrum)))

calculateBandEnergy(spectrum, startBin, endBin) ==
    LET hi == Min(endBin, Length(spectrum))
        bins == hi - startBin
    IN FSqrt(FDivN(SumSq(spectrum, startBin, hi), bins))

\* the sum of the indices start .. start + n - 1
IndexSum(start, n) == (n * ((2 * start) + n - 1)) \div 2

\* a magnitude rounded to hundredths: the centroid's sums are taken over these, so
\* that the products of index sums and magnitudes stay within 32 bits
Hundredths(v) == (v + 50) \div 100

\* weightedSum: the sum of i * spectrum[i] over run k and the runs after it
RECURSIVE WeightedSumFrom(_, _)
WeightedSumFrom(spectrum, k) ==
    IF k > Len(spectrum) THEN 0
    ELSE (Hundredths(spectrum[k].v) * IndexSum(RunStart(spectrum, k), spectrum[k].n))
         + WeightedSumFrom(spectrum, k + 1)

\* magnitudeSum: the sum of spectrum[i] over run k and the runs after it
RECURSIVE MagnitudeSumFrom(_, _)
MagnitudeSumFrom(spectrum, k) ==
    IF k > Len(spectrum) THEN 0
    ELSE (Hundredths(spectrum[k].v) * spectrum[k].n) + MagnitudeSumFrom(spectrum, k + 1)

\* magnitudeSum > 0 ? weightedSum / magnitudeSum / length : 0
CentroidOf(weightedSum, magnitudeSum, length) ==
    IF magnitudeSum > 0
    THEN (((weightedSum \div magnitudeSum) * ONE)
          + (((weightedSum % magnitudeSum) * ONE) \div magnitudeSum)) \div length
    ELSE 0

\* the centroid left as a bin index, without the division by spectrum.length
calculateSpectralCentroidAsIndex(spectrum) ==
    CentroidOf(WeightedSumFrom(spectrum, 1), MagnitudeSumFrom(spectrum, 1), 1)

calculateSpectralCentroid(spectrum) ==
    CentroidOf(WeightedSumFrom(spectrum, 1), MagnitudeSumFrom(spectrum, 1), Length(spectrum))

\* the first index i at which cumulativeEnergy, summed up to and including
\* spectrum[i], reaches rolloffThreshold, searched from run k on; -1 when the loop
\* ends without reaching it.  energy is spectrum[i] * spectrum[i] within run k.
RECURSIVE RolloffIndex(_, _, _, _)
RECURSIVE RolloffInRun(_, _, _, _, _)
RolloffInRun(spectrum, k, energy, cumulativeEnergy, rolloffThreshold) ==
    IF IsNaN(energy) \/ IsNaN(cumulativeEnergy) \/ IsNaN(rolloffThreshold) THEN 0 - 1
    ELSE IF cumulativeEnergy + energy >= rolloffThreshold THEN RunStart(spectrum, k)
    ELSE IF energy > 0 /\ cumulativeEnergy + (spectrum[k].n * energy) >= rolloffThreshold
    THEN RunStart(spectrum, k)
         + ((rolloffThreshold - cumulativeEnergy + energy - 1) \div energy) - 1
    ELSE RolloffIndex(spectrum, k + 1, cumulativeEnergy + (spectrum[k].n * energy),
                      rolloffThreshold)

RolloffIndex(spectrum, k, cumulativeEnergy, rolloffThreshold) ==
    IF k > Len(spectrum) THEN 0 - 1
    ELSE RolloffInRun(spectrum, k, FMul(spectrum[k].v, spectrum[k].v), cumulativeEnergy,
                      rolloffThreshold)

\* i / spectrum.length for the index found, 1 when none was found
RolloffOf(i, length) == IF i < 0 THEN ONE ELSE (i * ONE) \div length

\* calculateSpectralRolloff(spectrum) with the default threshold 0.85
calculateSpectralRolloff(spectrum) ==
    RolloffOf(RolloffIndex(spectrum, 1, 0,
                           FScale(SumSq(spectrum, 0, Length(spectrum)), 85, 100)),
              Length(spectrum))

\* the sum of all the differences spectrum[i] - previous[i], negative ones included
RECURSIVE SignedDiffs(_, _, _, _)
SignedDiffs(spectrum, previous, pos, len) ==
    IF pos >= len THEN 0
    ELSE LET nxt == Min(RunEnd(spectrum, pos), RunEnd(previous, pos))
             diff == FSub(At(spectrum, pos), At(previous, pos))
         IN FAdd(diff * (nxt - pos), SignedDiffs(spectrum, previous, nxt, len))

\* sum of the positive differences spectrum[i] - previous[i] for pos <= i < len
RECURSIVE PositiveDiffs(_, _, _, _)
PositiveDiffs(spectrum, previous, pos, len) ==
    IF pos >= len THEN 0
    ELSE LET nxt == Min(RunEnd(spectrum, pos), RunEnd(previous, pos))
             diff == FSub(At(spectrum, pos), At(previous, pos))
             rest == PositiveDiffs(spectrum, previous, nxt, len)
         IN IF FGt(diff, 0) THEN FAdd(diff * (nxt - pos), rest) ELSE rest

\* [an |-> the analyzer after the call, flux |-> the value returned]
calculateSpectralFlux(an, spectrum) ==
    IF Length(an.previousSpectrum) # Length(spectrum)
    THEN [an |-> [an EXCEPT !.previousSpectrum = spectrum], flux |-> 0]
    ELSE LET flux == PositiveDiffs(spectrum, an.previousSpectrum, 0, Length(spectrum))
         IN [an |-> [previousSpectrum |-> spectrum,
                     spectralFluxBuffer |-> PushCapped(an.spectralFluxBuffer, flux, 10)],
             flux |-> flux]

\* the runs k of timeData (k < Len) whose last element and the next run's first
\* element lie on different sides of zero
ZeroCrossings(timeData) ==
    Cardinality({k \in 1..(Len(timeData) - 1) :
        FGe(timeData[k + 1].v, 0) # FGe(timeData[k].v, 0)})

calculateZeroCrossingRate(timeData) ==
    FDivN(ZeroCrossings(timeData) * ONE, Length(timeData))

\* spectrum[bin], added only when bin < spectrum.length
HarmonicBin(spectrum, bin) == IF bin < Length(spectrum) THEN At(spectrum, bin) ELSE 0

calculateHarmonicContent(spectrum) ==
    LET fundamentalBin == 4
        harmonicEnergy ==
            FAdd(HarmonicBin(spectrum, fundamentalBin * 2),
            FAdd(HarmonicBin(spectrum, fundamentalBin * 3),
            FAdd(HarmonicBin(spectrum, fundamentalBin * 4),
            FAdd(HarmonicBin(spectrum, fundamentalBin * 5),
            FAdd(HarmonicBin(spectrum, fundamentalBin * 6),
            FAdd(HarmonicBin(spectrum, fundamentalBin * 7),
                 HarmonicBin(spectrum, fundamentalBin * 8)))))))
    IN FDiv(harmonicEnergy, calculateEnergy(spectrum))

\* [an |-> the analyzer after the call, onset |-> the value returned]
detectOnset(an, spectrum) ==
    LET avgFlux == FDivN(SumSeq(an.spectralFluxBuffer), Max(Len(an.spectralFluxBuffer), 1))
        r == calculateSpectralFlux(an, spectrum)
    IN [an |-> r.an,
        onset |-> FGt(r.flux, FScale(avgFlux, 15, 10)) /\ FGt(r.flux, ONE \div 10)]

\* the largest |timeData[i] - timeData[i-1]|, taken over the run boundaries
RECURSIVE MaxChangeFrom(_, _)
MaxChangeFrom(timeData, k) ==
    IF k >= Len(timeData) THEN 0
    ELSE FMax(FAbs(FSub(timeData[k + 1].v, timeData[k].v)), MaxChangeFrom(timeData, k + 1))

detectTransient(timeData) == FGt(MaxChangeFrom(timeData, 1), (3 * ONE) \div 10)

\* [an |-> the analyzer after the call, features |-> the AdvancedAudioFeatures returned]
analyze(an, frequencyData, timeData) ==
    LET f == calculateSpectralFlux(an, frequencyData)
        o == detectOnset(f.an, frequencyData)
    IN [an |-> o.an,
        features |->
           [energy |-> calculateEnergy(frequencyData),
            bassEnergy |-> calculateBandEnergy(frequencyData, 0, 8),
            subBassEnergy |-> calculateBandEnergy(frequencyData, 0, 4),
            midEnergy |-> calculateBandEnergy(frequencyData, 8, 32),
            highMidEnergy |-> calculateBandEnergy(frequencyData, 32, 64),
            trebleEnergy |-> calculateBandEnergy(frequencyData, 64, 128),
            presenceEnergy |-> calculateBandEnergy(frequencyData, 128, 256),
            brillianceEnergy |-> calculateBandEnergy(frequencyData, 256, 512),
            spectralCentroid |-> calculateSpectralCentroid(frequencyData),
            spectralRolloff |-> calculateSpectralRolloff(frequencyData),
            spectralFlux |-> f.flux,
            zeroCrossingRate |-> calculateZeroCrossingRate(timeData),
            harmonicContent |-> calculateHarmonicContent(frequencyData),
            onset |-> o.onset,
            transient |-> detectTransient(timeData),
            tempo |-> 0,
            beat |-> FALSE,
            kick |-> FALSE,
            snare |-> FALSE,
            hihat |-> FALSE,
            rhythmStrength |-> 0,
            beatConfidence |-> 0]]

(***************************************************************************)
(* KickDetector, SnareDetector, HihatDetector.  Each detect reads the wall *)
(* clock itself (performance.now()): `clock` is the value it reads.        *)
(***************************************************************************)
KickThreshold == (8 * ONE) \div 10

KickInit == [kickHistory |-> <<>>, lastKickTime |-> 0]
SnareInit == [snareHistory |-> <<>>, lastSnareTime |-> 0]
HihatInit == [hihatHistory |-> <<>>, lastHihatTime |-> 0]

\* Math.floor(length * (tenths / 10))
FloorTenths(length, tenths) == (length * tenths) \div 10

calculateSubBassEnergy(spectrum) ==
    LET subBassRange == Min(8, Length(spectrum))
    IN FSqrt(FDivN(SumSq(spectrum, 1, subBassRange), subBassRange - 1))

\* the kick is accepted when more than 200 ms lie between clock and lastKickTime
KickRefractoryOver(clock, lastKickTime) == (clock - lastKickTime) > 200

\* [kd |-> the detector after the call, isKick |-> the value returned]
KickDetector_detect(kd, spectrum, bassEnergy, clock) ==
    LET subBassEnergy == calculateSubBassEnergy(spectrum)
        history == PushCapped(kd.kickHistory, subBassEnergy, 10)
        avgKickEnergy == FDivN(SumSeq(history), Len(history))
        isKick == /\ FGt(subBassEnergy, FScale(avgKickEnergy, 14, 10))
                  /\ FGt(bassEnergy, KickThreshold)
                  /\ KickRefractoryOver(clock, kd.lastKickTime)
    IN [kd |-> [kickHistory |-> history,
                lastKickTime |-> IF isKick THEN clock ELSE kd.lastKickTime],
        isKick |-> isKick]

calculateMidEnergy(spectrum) ==
    LET start == FloorTenths(Length(spectrum), 1)
        end == FloorTenths(Length(spectrum), 3)
    IN FSqrt(FDivN(SumSq(spectrum, start, Min(end, Length(spectrum))), end - start))

calculateHighMidEnergy(spectrum) ==
    LET start == FloorTenths(Length(spectrum), 3)
        end == FloorTenths(Length(spectrum), 6)
    IN FSqrt(FDivN(SumSq(spectrum, start, Min(end, Length(spectrum))), end - start))

\* the runs of spectrum with a value above 0.001 and an element in [a, b)
LoudRuns(spectrum, a, b) ==
    {k \in 1..Len(spectrum) : Overlap(spectrum, k, a, b) > 0 /\ FGt(spectrum[k].v, ONE \div 1000)}

RECURSIVE CountOver(_, _, _, _)
CountOver(spectrum, k, a, b) ==
    IF k > Len(spectrum) THEN 0
    ELSE (IF k \in LoudRuns(spectrum, a, b) THEN Overlap(spectrum, k, a, b) ELSE 0)
         + CountOver(spectrum, k + 1, a, b)

RECURSIVE SumOver(_, _, _, _)
SumOver(spectrum, k, a, b) ==
    IF k > Len(spectrum) THEN 0
    ELSE (IF k \in LoudRuns(spectrum, a, b)
          THEN Overlap(spectrum, k, a, b) * spectrum[k].v ELSE 0)
         + SumOver(spectrum, k + 1, a, b)

\* The product of Math.pow(spectrum[i], 1 / total) over the elements above 0.001 in
\* [a, b).  It is evaluated exactly in the two cases the model's spectra keep to:
\* the counted elements all hold 1.0 (the product is 1.0), or they all hold one value
\* v and fill the whole range (the product is v).
GeometricMean(spectrum, a, b, total) ==
    LET loud == LoudRuns(spectrum, a, b)
        values == {spectrum[k].v : k \in loud}
    IN IF loud = {} THEN ONE
       ELSE IF values = {ONE} THEN ONE
       ELSE CHOOSE v \in values : TRUE

\* whether GeometricMean evaluates spectrum's noise range exactly
FlatNoiseRange(spectrum) ==
    LET start == FloorTenths(Length(spectrum), 2)
        end == FloorTenths(Length(spectrum), 8)
        a == start
        b == Min(end, Length(spectrum))
        values == {spectrum[k].v : k \in LoudRuns(spectrum, a, b)}
    IN \/ values = {}
       \/ values = {ONE}
       \/ Cardinality(values) = 1 /\ CountOver(spectrum, 1, a, b) = end - start

calculateNoiseComponent(spectrum) ==
    LET start == FloorTenths(Length(spectrum), 2)
        end == FloorTenths(Length(spectrum), 8)
        hi == Min(end, Length(spectrum))
        count == CountOver(spectrum, 1, start, hi)
        geometricMean == GeometricMean(spectrum, start, hi, end - start)
        arithmeticMean == FDivN(SumOver(spectrum, 1, start, hi), count)
    IN IF count > 0 THEN FDiv(geometricMean, arithmeticMean) ELSE 0

SnareRefractoryOver(clock, lastSnareTime) == (clock - lastSnareTime) > 180

\* [sd |-> the detector after the call, isSnare |-> the value returned]
SnareDetector_detect(sd, spectrum, clock) ==
    LET midEnergy == calculateMidEnergy(spectrum)
        highMidEnergy == calculateHighMidEnergy(spectrum)
        noiseComponent == calculateNoiseComponent(spectrum)
        snareCharacteristic == FMul(FAdd(midEnergy, highMidEnergy), noiseComponent)
        history == PushCapped(sd.snareHistory, snareCharacteristic, 8)
        avgSnareEnergy == FDivN(SumSeq(history), Len(history))
        isSnare == /\ FGt(snareCharacteristic, FScale(avgSnareEnergy, 16, 10))
                   /\ SnareRefractoryOver(clock, sd.lastSnareTime)
    IN [sd |-> [snareHistory |-> history,
                lastSnareTime |-> IF isSnare THEN clock ELSE sd.lastSnareTime],
        isSnare |-> isSnare]

calculateHighFreqEnergy(spectrum) ==
    LET start == FloorTenths(Length(spectrum), 6)
    IN FSqrt(FDivN(SumSq(spectrum, start, Length(spectrum)), Length(spectrum) - start))

calculateBrillianceEnergy(spectrum) ==
    LET start == FloorTenths(Length(spectrum), 8)
    IN FSqrt(FDivN(SumSq(spectrum, start, Length(spectrum)), Length(spectrum) - start))

HihatRefractoryOver(clock, lastHihatTime) == (clock - lastHihatTime) > 120

\* [hd |-> the detector after the call, isHihat |-> the value returned]
HihatDetector_detect(hd, spectrum, clock) ==
    LET highFreqEnergy == calculateHighFreqEnergy(spectrum)
        brillianceEnergy == calculateBrillianceEnergy(spectrum)
        hihatCharacteristic == FAdd(highFreqEnergy, FScale(brillianceEnergy, 15, 10))
        history == PushCapped(hd.hihatHistory, hihatCharacteristic, 6)
        avgHihatEnergy == FDivN(SumSeq(history), Len(history))
        isHihat == /\ FGt(hihatCharacteristic, FScale(avgHihatEnergy, 18, 10))
                   /\ HihatRefractoryOver(clock, hd.lastHihatTime)
    IN [hd |-> [hihatHistory |-> history,
                lastHihatTime |-> IF isHihat THEN clock ELSE hd.lastHihatTime],
        isHihat |-> isHihat]

(***************************************************************************)
(* AdvancedBeatDetector                                                    *)
(***************************************************************************)
MinBeatInterval == 250

BeatDetectorInit ==
    [energyBuffer |-> <<>>, bassBuffer |-> <<>>, lastBeatTime |-> 0,
     beatThreshold |-> (13 * ONE) \div 10, adaptiveThreshold |-> (13 * ONE) \div 10,
     kickDetector |-> KickInit, snareDetector |-> SnareInit, hihatDetector |-> HihatInit]

calculateBassEnergy(spectrum) ==
    LET bassRange == Min(16, Length(spectrum))
    IN FSqrt(FDivN(SumSq(spectrum, 0, bassRange), bassRange))

calculateTotalEnergy(spectrum) ==
    FSqrt(FDivN(SumSq(spectrum, 0, Length(spectrum)), Length(spectrum)))

\* sum of (val - avg)^2 over the buffer
RECURSIVE SumSqDev(_, _)
SumSqDev(buf, avg) ==
    IF Len(buf) = 0 THEN 0
    ELSE IF Len(buf) = 1 THEN FAdd(0, FMul(FSub(buf[1], avg), FSub(buf[1], avg)))
    ELSE FAdd(SumSqDev(SubSeq(buf, 1, Len(buf) \div 2), avg),
              SumSqDev(SubSeq(buf, (Len(buf) \div 2) + 1, Len(buf)), avg))

\* the refractory test with a window of 200 ms in place of minBeatInterval
BeatRefractoryOver200(currentTime, lastBeatTime) ==
    (currentTime - lastBeatTime) > 200

\* the beat is accepted when more than minBeatInterval lies between the two times
BeatRefractoryOver(currentTime, lastBeatTime) == (currentTime - lastBeatTime) > MinBeatInterval

\* setSensitivity(sensitivity): beatThreshold = 1.0 + (1 - sensitivity) * 0.8
setSensitivity(bd, sensitivity) ==
    [bd EXCEPT !.beatThreshold = FAdd(ONE, FMul(FSub(ONE, sensitivity), (8 * ONE) \div 10))]

\* (totalEnergy / (avgEnergy * adaptiveThreshold) - 1) * 2 without Math.min(1, ...)
BeatConfidenceUnclamped(totalEnergy, avgEnergy, adaptiveThreshold) ==
    FScale(FSub(FDiv(totalEnergy, FMul(avgEnergy, adaptiveThreshold)), ONE), 2, 1)

\* the confidence of a fired beat:
\* Math.min(1, (totalEnergy / (avgEnergy * adaptiveThreshold) - 1) * 2)
BeatConfidence(totalEnergy, avgEnergy, adaptiveThreshold) ==
    FMin(ONE, FScale(FSub(FDiv(totalEnergy, FMul(avgEnergy, adaptiveThreshold)), ONE), 2, 1))

\* the adaptive threshold with a base of 0.8 in place of 1.2
AdaptiveThresholdBelowOne(variance) ==
    FAdd((8 * ONE) \div 10, FMin(ONE \div 2, FScale(variance, 2, 1)))

\* the adaptive threshold: 1.2 + Math.min(0.5, variance * 2)
AdaptiveThreshold(variance) ==
    FAdd((12 * ONE) \div 10, FMin(ONE \div 2, FScale(variance, 2, 1)))

\* process(spectrum, currentTime); clocks.kick, clocks.snare and clocks.hihat are the
\* values performance.now() returns inside the three drum detectors.
\* [bd |-> the detector after the call, result |-> the BeatResult returned]
process(bd, spectrum, currentTime, clocks) ==
    LET bassEnergy == calculateBassEnergy(spectrum)
        totalEnergy == calculateTotalEnergy(spectrum)
        energyBuffer == PushCapped(bd.energyBuffer, totalEnergy, 43)
        bassBuffer == PushCapped(bd.bassBuffer, bassEnergy, 43)
        avgEnergy == FDivN(SumSeq(energyBuffer), Len(energyBuffer))
        variance == FDivN(SumSqDev(energyBuffer, avgEnergy), Len(energyBuffer))
        adaptiveThreshold == AdaptiveThreshold(variance)
        isBeat == /\ FGt(totalEnergy, FMul(adaptiveThreshold, avgEnergy))
                  /\ BeatRefractoryOver(currentTime, bd.lastBeatTime)
        confidence ==
            IF isBeat
            THEN BeatConfidence(totalEnergy, avgEnergy, adaptiveThreshold)
            ELSE 0
        k == KickDetector_detect(bd.kickDetector, spectrum, bassEnergy, clocks.kick)
        s == SnareDetector_detect(bd.snareDetector, spectrum, clocks.snare)
        h == HihatDetector_detect(bd.hihatDetector, spectrum, clocks.hihat)
    IN [bd |-> [energyBuffer |-> energyBuffer,
                bassBuffer |-> bassBuffer,
                lastBeatTime |-> IF isBeat THEN currentTime ELSE bd.lastBeatTime,
                beatThreshold |-> bd.beatThreshold,
                adaptiveThreshold |-> adaptiveThreshold,
                kickDetector |-> k.kd,
                snareDetector |-> s.sd,
                hihatDetector |-> h.hd],
        result |-> [beat |-> isBeat, kick |-> k.isKick, snare |-> s.isSnare,
                    hihat |-> h.isHihat, confidence |-> confidence,
                    energy |-> totalEnergy, bassEnergy |-> bassEnergy]]

(***************************************************************************)
(* TempoTracker.  update reads the wall clock itself: `clock` is the value *)
(* performance.now() returns.  Intervals are milliseconds, tempi are       *)
(* numbers (BPM * ONE).                                                    *)
(***************************************************************************)
TempoTrackerInit ==
    [beatIntervals |-> <<>>, lastBeatTime |-> 0, currentTempo |-> 0,
     tempoBuffer |-> <<>>, confidence |-> 0]

\* 60000 / interval
BpmOf(interval) ==
    IF interval = 0 THEN Infinity
    ELSE IF interval > 0 THEN (60000 * ONE) \div interval
    ELSE 0 - ((60000 * ONE) \div (0 - interval))

\* the filter on the BPM without its upper limit
ReasonableBpmNoCeiling(bpm) == bpm >= 60 * ONE

\* the filter on the BPM an interval implies
ReasonableBpm(bpm) == bpm >= 60 * ONE /\ bpm <= 200 * ONE

\* sortedIntervals[Math.floor(sortedIntervals.length / 2)]
MedianInterval(beatIntervals) ==
    SortSeq(beatIntervals, LAMBDA a, b : a < b)[(Len(beatIntervals) \div 2) + 1]

\* calculateTempo waiting for 8 intervals in place of 4
calculateTempoFrom8(beatIntervals, tempoBuffer) ==
    IF Len(beatIntervals) < 8 THEN [tempoBuffer |-> tempoBuffer, tempo |-> 0]
    ELSE LET tempo == BpmOf(MedianInterval(beatIntervals))
             buffer == PushCapped(tempoBuffer, tempo, 8)
         IN [tempoBuffer |-> buffer, tempo |-> FDivN(SumSeq(buffer), Len(buffer))]

\* [tempoBuffer |-> the buffer after the call, tempo |-> the value returned]
calculateTempo(beatIntervals, tempoBuffer) ==
    IF Len(beatIntervals) < 4 THEN [tempoBuffer |-> tempoBuffer, tempo |-> 0]
    ELSE LET tempo == BpmOf(MedianInterval(beatIntervals))
             buffer == PushCapped(tempoBuffer, tempo, 8)
         IN [tempoBuffer |-> buffer, tempo |-> FDivN(SumSeq(buffer), Len(buffer))]

RECURSIVE SumSqDevMs(_, _)
SumSqDevMs(intervals, avg) ==
    IF intervals = <<>> THEN 0
    ELSE (Head(intervals) - avg) * (Head(intervals) - avg) + SumSqDevMs(Tail(intervals), avg)

\* 1 - stdDev / avgInterval, not below 0; the mean and the deviation are taken in
\* whole milliseconds
calculateTempoConfidence(beatIntervals) ==
    IF Len(beatIntervals) < 4 THEN 0
    ELSE LET avgInterval == SumSeq(beatIntervals) \div Len(beatIntervals)
             variance == SumSqDevMs(beatIntervals, avgInterval) \div Len(beatIntervals)
             stdDev == IsqrtIn(variance, 0, 40000)
         IN Max(0, ONE - ((stdDev * ONE) \div avgInterval))

\* [tt |-> the tracker after the call, tempo |-> the value returned]
TempoTracker_update(tt, beatResult, clock) ==
    IF ~beatResult.beat THEN [tt |-> tt, tempo |-> tt.currentTempo]
    ELSE LET interval == clock - tt.lastBeatTime
             accepted == tt.lastBeatTime > 0 /\ ReasonableBpm(BpmOf(interval))
             intervals == PushCapped(tt.beatIntervals, interval, 16)
             t == calculateTempo(intervals, tt.tempoBuffer)
             after ==
                IF accepted
                THEN [beatIntervals |-> intervals,
                      lastBeatTime |-> clock,
                      currentTempo |-> t.tempo,
                      tempoBuffer |-> t.tempoBuffer,
                      confidence |-> calculateTempoConfidence(intervals)]
                ELSE [tt EXCEPT !.lastBeatTime = clock]
         IN [tt |-> after, tempo |-> after.currentTempo]

(***************************************************************************)
(* RhythmAnalyzer                                                          *)
(***************************************************************************)
PatternLength == 16

RhythmAnalyzerInit == [rhythmPattern |-> <<>>, beatCounter |-> 0]

\* rhythmPattern[index] = energy, for index <= rhythmPattern.length
StorePattern(rhythmPattern, index, energy) ==
    IF index >= Len(rhythmPattern) THEN Append(rhythmPattern, energy)
    ELSE [rhythmPattern EXCEPT ![index + 1] = energy]

\* sum of rhythmPattern[i] * rhythmPattern[i + lag] for i <= j < patternLength - lag
RECURSIVE Correlation(_, _, _)
Correlation(rhythmPattern, lag, i) ==
    IF i >= PatternLength - lag THEN 0
    ELSE FAdd(FMul(rhythmPattern[i + 1], rhythmPattern[i + lag + 1]),
              Correlation(rhythmPattern, lag, i + 1))

\* maxCorrelation after the lags lag, lag + 1, ... below patternLength / 2
RECURSIVE MaxCorrelation(_, _, _)
MaxCorrelation(rhythmPattern, lag, maxCorrelation) ==
    IF lag >= PatternLength \div 2 THEN maxCorrelation
    ELSE MaxCorrelation(rhythmPattern, lag + 1,
                        FMax(maxCorrelation, Correlation(rhythmPattern, lag, 0)))

\* calculateRhythmStrength with the lag loop started at 0, where the pattern
\* is multiplied with itself
calculateRhythmStrengthFromLagZero(rhythmPattern) ==
    FDivN(MaxCorrelation(rhythmPattern, 0, 0), PatternLength)

calculateRhythmStrength(rhythmPattern) ==
    FDivN(MaxCorrelation(rhythmPattern, 1, 0), PatternLength)

\* analyze without the test of the pattern's length: an element read past the
\* pattern's end is undefined and makes the sum NaN
RhythmAnalyzer_analyzeUnguarded(ra, spectrum) ==
    LET energy == calculateEnergy(spectrum)
        pattern == StorePattern(ra.rhythmPattern, ra.beatCounter % PatternLength, energy)
    IN [ra |-> [rhythmPattern |-> pattern, beatCounter |-> ra.beatCounter + 1],
        strength |-> IF Len(pattern) >= PatternLength
                     THEN calculateRhythmStrength(pattern) ELSE NaN]

\* [ra |-> the analyzer after the call, strength |-> the value returned]
RhythmAnalyzer_analyze(ra, spectrum) ==
    LET energy == calculateEnergy(spectrum)
        pattern == StorePattern(ra.rhythmPattern, ra.beatCounter % PatternLength, energy)
    IN [ra |-> [rhythmPattern |-> pattern, beatCounter |-> ra.beatCounter + 1],
        strength |-> IF Len(pattern) >= PatternLength
                     THEN calculateRhythmStrength(pattern) ELSE 0]

(***************************************************************************)
(* AdvancedVisualEffects: the pulses (pulsePhase and colorShift, which no  *)
(* analysis step reads, are left out)                                      *)
(***************************************************************************)
VisualEffectsInit ==
    [flashIntensity |-> 0, kickPulse |-> 0, snarePulse |-> 0, hihatPulse |-> 0,
     energyPulse |-> 0]

AdvancedVisualEffects_update(ve, audioFeatures) ==
    [flashIntensity |->
        IF audioFeatures.beat
        THEN FMin(ONE, FMul(audioFeatures.energy, audioFeatures.beatConfidence))
        ELSE FScale(ve.flashIntensity, 85, 100),
     kickPulse |-> IF audioFeatures.kick THEN ONE ELSE FScale(ve.kickPulse, 8, 10),
     snarePulse |-> IF audioFeatures.snare THEN ONE ELSE FScale(ve.snarePulse, 7, 10),
     hihatPulse |-> IF audioFeatures.hihat THEN ONE ELSE FScale(ve.hihatPulse, 6, 10),
     energyPulse |-> audioFeatures.energy]

(***************************************************************************)
(* AudioPlayer: the playlist, the position in it, shuffle and repeat.      *)
(* Tracks are their ids; indices are 0-based as in the code.  The audio    *)
(* element is its source and whether it is playing; a track that loadTrack *)
(* has loaded becomes ready (canplay), so the play() a caller registers    *)
(* for canplay is taken together with the load.                            *)
(***************************************************************************)
\* undefined (an index or element that does not exist) and null (no track)
Undefined == 0 - 2
Null == 0 - 3

\* arr.indexOf(x), arr.findIndex(t => t.id === x): -1 when x is not in arr
indexOf(arr, x) ==
    IF \E i \in 1..Len(arr) : arr[i] = x
    THEN (CHOOSE i \in 1..Len(arr) : arr[i] = x /\ \A j \in 1..(i - 1) : arr[j] # x) - 1
    ELSE 0 - 1

\* arr[i]: undefined outside 0 .. length - 1
ElementAt(arr, i) == IF i >= 0 /\ i < Len(arr) THEN arr[i + 1] ELSE Undefined

\* a < b of two numbers: false when one of them is undefined
JsLt(a, b) == a # Undefined /\ b # Undefined /\ a < b

\* the player's fields after construction
AudioPlayerInit ==
    [currentTrack |-> Null, playlist |-> <<>>, currentIndex |-> 0, isShuffled |-> FALSE,
     repeatMode |-> "none", shuffledIndices |-> <<>>,
     audio |-> [src |-> Null, playing |-> FALSE]]

\* loadTrack(index).  An index that is undefined passes the range test (both
\* comparisons are false): currentIndex and currentTrack become undefined, the audio
\* is paused and reading currentTrack.url throws.
\* [player |-> the player after the call, loaded |-> a track was loaded]
loadTrack(p, index) ==
    IF index # Undefined /\ (index < 0 \/ index >= Len(p.playlist))
    THEN [player |-> p, loaded |-> FALSE]
    ELSE IF ElementAt(p.playlist, index) = Undefined
    THEN [player |-> [p EXCEPT !.currentIndex = index, !.currentTrack = Undefined,
                               !.audio.playing = FALSE],
          loaded |-> FALSE]
    ELSE [player |-> [p EXCEPT !.currentIndex = index,
                               !.currentTrack = ElementAt(p.playlist, index),
                               !.audio = [src |-> ElementAt(p.playlist, index),
                                          playing |-> FALSE]],
          loaded |-> TRUE]

\* play(): nothing without a current track
play(p) ==
    IF p.currentTrack = Null \/ p.currentTrack = Undefined THEN p
    ELSE [p EXCEPT !.audio.playing = TRUE]

\* play() once the track that was asked for is ready; no track was loaded when
\* loadTrack returned early or threw
PlayWhenReady(l) == IF l.loaded THEN play(l.player) ELSE l.player

\* the index playTrack starts from
StartIndex(list, track) == IF indexOf(list, track) = 0 - 1 THEN 0 ELSE indexOf(list, track)

\* playTrack(track, playlist)
playTrack(p, track, playlist) ==
    LET list == IF Len(playlist) > 0 THEN playlist ELSE <<track>>
    IN PlayWhenReady(loadTrack([p EXCEPT !.playlist = list,
                                         !.currentIndex = StartIndex(list, track)],
                               StartIndex(list, track)))

\* setPlaylist(tracks, startIndex)
setPlaylist(p, tracks, startIndex) ==
    IF Len(tracks) > 0 THEN loadTrack([p EXCEPT !.playlist = tracks], startIndex).player
    ELSE [p EXCEPT !.playlist = tracks]

\* the orders createShuffledIndices can produce for a playlist of n tracks: the
\* permutations of 0 .. n - 1
Shuffles(n) ==
    {s \in [1..n -> 0..(n - 1)] : \A i, j \in 1..n : i # j => s[i] # s[j]}

\* toggleShuffle(); shuffled is the order createShuffledIndices draws
toggleShuffle(p, shuffled) ==
    IF p.isShuffled THEN [p EXCEPT !.isShuffled = FALSE]
    ELSE [p EXCEPT !.isShuffled = TRUE, !.shuffledIndices = shuffled]

\* toggleRepeat(): none -> all -> one -> none
toggleRepeat(p) ==
    [p EXCEPT !.repeatMode = IF p.repeatMode = "none" THEN "all"
                             ELSE IF p.repeatMode = "all" THEN "one" ELSE "none"]

\* the index nextTrackAndPlay computes
NextIndex(p) ==
    IF p.isShuffled
    THEN ElementAt(p.shuffledIndices,
                   IF indexOf(p.shuffledIndices, p.currentIndex) < Len(p.shuffledIndices) - 1
                   THEN indexOf(p.shuffledIndices, p.currentIndex) + 1 ELSE 0)
    ELSE IF JsLt(p.currentIndex, Len(p.playlist) - 1) THEN p.currentIndex + 1 ELSE 0

\* nextTrackAndPlay()
nextTrackAndPlay(p) ==
    IF Len(p.playlist) = 0 THEN p ELSE PlayWhenReady(loadTrack(p, NextIndex(p)))

\* hasNextTrack()
hasNextTrack(p) ==
    IF p.isShuffled
    THEN indexOf(p.shuffledIndices, p.currentIndex) < Len(p.shuffledIndices) - 1
    ELSE JsLt(p.currentIndex, Len(p.playlist) - 1)

\* the player when its audio element has reached the end of the source
Ended(p) == [p EXCEPT !.audio.playing = FALSE]

\* handleTrackEnd(), the listener of the audio element's ended event
handleTrackEnd(p) ==
    IF p.repeatMode = "one" THEN play(Ended(p))
    ELSE IF p.repeatMode = "all" THEN nextTrackAndPlay(Ended(p))
    ELSE IF hasNextTrack(p) THEN nextTrackAndPlay(Ended(p))
    ELSE Ended(p)

(***************************************************************************)
(* AudioVisualizer: the animation loop.  pending holds the handles of the  *)
(* frame callbacks that requestAnimationFrame has queued and that have     *)
(* neither run nor been cancelled; lastFrameTime, frameCount and           *)
(* fpsStartTime are the variables of startAnimation's closure.  lifecycle  *)
(* records which of start / enableTestMode and stop was called last.       *)
(* performanceMetrics and the canvas are left out.                         *)
(***************************************************************************)
\* the FFT size of the visualizer's own analyser (line 225) and of the audio
\* service's analyser (AudioService's constructor)
OwnFftSizes == {4096}
ServiceFftSizes == {256}

AudioVisualizerInit ==
    [isActive |-> FALSE, animationId |-> Undefined, pending |-> {}, handles |-> 0,
     testModeActive |-> FALSE, connectedAudio |-> FALSE, analyser |-> "own",
     fftSize |-> CHOOSE n \in OwnFftSizes : TRUE,
     analysisInterval |-> 1667 * (ONE \div 100), lastAnalysisTime |-> 0,
     lastFrameTime |-> 0, frameCount |-> 0, fpsStartTime |-> 0,
     lifecycle |-> "constructed"]

\* autoConnectToAudioService when the application's audio service is there: the
\* visualizer takes over the service's analyser and audio element
autoConnectToAudioService(v) ==
    [v EXCEPT !.analyser = "service",
              !.fftSize = IF v.analyser = "service" THEN @
                          ELSE CHOOSE n \in ServiceFftSizes : TRUE,
              !.connectedAudio = TRUE,
              !.testModeActive = FALSE]

\* Math.max and Math.min of two integers
IntMax(a, b) == IF a >= b THEN a ELSE b
IntMin(a, b) == IF a <= b THEN a ELSE b

\* adjustQualityBasedOnPerformance(deltaTime), deltaTime in ms
adjustQualityBasedOnPerformance(v, deltaTime) ==
    IF deltaTime > 20
    THEN [v EXCEPT !.analysisInterval = FMin(3333 * (ONE \div 100), FAdd(@, 2 * ONE)),
                   !.fftSize = IntMax(1024, @ \div 2)]
    ELSE IF deltaTime < 12
    THEN [v EXCEPT !.analysisInterval = FMax(833 * (ONE \div 100), FSub(@, ONE)),
                   !.fftSize = IntMin(8192, @ * 2)]
    ELSE v

\* the rest of animate once the quality is adjusted; v.lastFrameTime is already
\* currentTime.  due: the analysis runs in this frame
AnimateAdjusted(v, currentTime) ==
    LET due == FGe((currentTime - v.lastAnalysisTime) * ONE, v.analysisInterval)
        windowOver == currentTime - v.fpsStartTime >= 1000
    IN [v |-> [v EXCEPT !.lastAnalysisTime = IF due THEN currentTime ELSE @,
                        !.frameCount = IF windowOver THEN 0 ELSE @ + 1,
                        !.fpsStartTime = IF windowOver THEN currentTime ELSE @,
                        !.handles = @ + 1,
                        !.animationId = v.handles + 1,
                        !.pending = @ \cup {v.handles + 1}],
        analysed |-> due]

\* animate(currentTime): [v |-> the visualizer afterwards, analysed |-> whether
\* performAdvancedAudioAnalysis ran]
animate(v, currentTime) ==
    IF ~v.isActive THEN [v |-> v, analysed |-> FALSE]
    ELSE AnimateAdjusted(
             IF v.frameCount % 60 = 0
             THEN adjustQualityBasedOnPerformance(
                      [v EXCEPT !.lastFrameTime = currentTime],
                      currentTime - v.lastFrameTime)
             ELSE [v EXCEPT !.lastFrameTime = currentTime],
             currentTime)

\* startAnimation that leaves a queued frame callback in place
startAnimationWithoutCancel(v, t) ==
    animate([v EXCEPT !.lastFrameTime = t, !.frameCount = 0, !.fpsStartTime = t], t)

\* startAnimation() at the time t: the queued callback is cancelled, the closure's
\* variables start afresh and animate runs once at once
startAnimation(v, t) ==
    animate([v EXCEPT !.pending = IF v.animationId # Undefined
                                  THEN @ \ {v.animationId} ELSE @,
                      !.lastFrameTime = t, !.frameCount = 0, !.fpsStartTime = t], t)

\* enableTestMode() at the time t
enableTestMode(v, t) ==
    IF v.animationId = Undefined
    THEN startAnimation([v EXCEPT !.testModeActive = TRUE, !.isActive = TRUE,
                                  !.lifecycle = "running"], t)
    ELSE [v |-> [v EXCEPT !.testModeActive = TRUE, !.isActive = TRUE,
                          !.lifecycle = "running"],
          analysed |-> FALSE]

\* start() once the connection is seen to: isActive = true; startAnimation()
Activate(v, t) ==
    startAnimation([v EXCEPT !.isActive = TRUE, !.lifecycle = "running"], t)

\* start() at the time t.  Without an audio element start first looks for one:
\* found is "service" when the application's audio service is there, "test" when
\* no audio element exists at all and autoConnectToAudio enables the test mode,
\* "element" when a plain audio element is found
start(v, t, found) ==
    IF v.connectedAudio \/ found = "element" THEN Activate(v, t)
    ELSE IF found = "service" THEN Activate(autoConnectToAudioService(v), t)
    ELSE LET e == enableTestMode(v, t)
             a == Activate(e.v, t)
         IN [v |-> a.v, analysed |-> e.analysed \/ a.analysed]

\* stop() that cancels the queued callback and leaves isActive as it is
stopKeepingActive(v) ==
    [v EXCEPT !.pending = IF v.animationId # Undefined THEN @ \ {v.animationId} ELSE @,
              !.lifecycle = "stopped"]

\* stop()
stop(v) ==
    [v EXCEPT !.isActive = FALSE,
              !.pending = IF v.animationId # Undefined THEN @ \ {v.animationId} ELSE @,
              !.lifecycle = "stopped"]

(***************************************************************************)
(* AudioVisualizer: the analysis fields and the per-tick driver            *)
(***************************************************************************)
VARIABLES
    audioAnalyzer,    \* AudioVisualizer.audioAnalyzer: ProfessionalAudioAnalyzer
    beatDetector,     \* AudioVisualizer.beatDetector: AdvancedBeatDetector
    tempoTracker,     \* AudioVisualizer.tempoTracker: TempoTracker
    rhythmAnalyzer,   \* AudioVisualizer.rhythmAnalyzer: RhythmAnalyzer
    visualEffects,    \* AudioVisualizer.visualEffects: AdvancedVisualEffects
    histories,        \* AudioVisualizer.energyHistory, beatHistory, onsetHistory
    audioFeatures,    \* AudioVisualizer.audioFeatures
    now,              \* the last value performance.now() returned
    calls,            \* how many calls have been made
    input,            \* the arguments of the last call
    output,           \* what the last call returned
    log,              \* per call: the timestamp handed in and the flags returned
    twin,             \* a second, independent set of analyzer, detector and tracker
    audioPlayer,      \* the AudioPlayer's playlist, position, modes and audio element
    visualizer        \* AudioVisualizer's animation loop, its analyser and its quality settings

vars == <<audioAnalyzer, beatDetector, tempoTracker, rhythmAnalyzer, visualEffects, histories,
          audioFeatures, now, calls, input, output, log, twin, audioPlayer, visualizer>>

\* the analysis state the visualizer retains from tick to tick
retained ==
    <<audioAnalyzer, beatDetector, tempoTracker, rhythmAnalyzer, visualEffects, histories>>

\* the vector resetAudioFeatures installs, which is also the field's initial value
ZeroFeatures ==
    [energy |-> 0, bassEnergy |-> 0, subBassEnergy |-> 0, midEnergy |-> 0,
     highMidEnergy |-> 0, trebleEnergy |-> 0, presenceEnergy |-> 0,
     brillianceEnergy |-> 0, spectralCentroid |-> 0,
     spectralRolloff |-> 0, spectralFlux |-> 0, zeroCrossingRate |-> 0,
     harmonicContent |-> 0, onset |-> FALSE, transient |-> FALSE, tempo |-> 0,
     beat |-> FALSE, kick |-> FALSE, snare |-> FALSE, hihat |-> FALSE,
     rhythmStrength |-> 0, beatConfidence |-> 0]

NoBeatResult ==
    [beat |-> FALSE, kick |-> FALSE, snare |-> FALSE, hihat |-> FALSE,
     confidence |-> 0, energy |-> 0, bassEnergy |-> 0]

\* one set of analyzer, detector and tracker, with what it last returned
SetInit ==
    [audioAnalyzer |-> AnalyzerInit, beatDetector |-> BeatDetectorInit,
     tempoTracker |-> TempoTrackerInit,
     output |-> [features |-> ZeroFeatures, result |-> NoBeatResult, tempo |-> 0]]

\* energyHistory, beatHistory, onsetHistory
HistoriesInit == [energyHistory |-> <<>>, beatHistory |-> <<>>, onsetHistory |-> <<>>]

\* updateHistories(); clock is the value performance.now() returns in it (an onset
\* event's frequency, the spectral centroid, is left out)
updateHistories(hs, features, clock) ==
    [energyHistory |-> PushCapped(hs.energyHistory, features.energy, 120),
     beatHistory |->
        IF features.beat
        THEN PushCapped(hs.beatHistory,
                        [time |-> clock, energy |-> features.energy,
                         confidence |-> features.beatConfidence,
                         type |-> IF features.kick THEN "kick"
                                  ELSE IF features.snare THEN "snare" ELSE "general"],
                        32)
        ELSE hs.beatHistory,
     onsetHistory |->
        IF features.onset
        THEN PushCapped(hs.onsetHistory,
                        [time |-> clock, spectralFlux |-> features.spectralFlux], 16)
        ELSE hs.onsetHistory]

\* the fields as the constructor leaves them
Constructed ==
    /\ audioAnalyzer = AnalyzerInit
    /\ beatDetector = BeatDetectorInit
    /\ tempoTracker = TempoTrackerInit
    /\ rhythmAnalyzer = RhythmAnalyzerInit
    /\ visualEffects = VisualEffectsInit
    /\ histories = HistoriesInit
    /\ audioFeatures = ZeroFeatures
    /\ twin = SetInit
    /\ audioPlayer = AudioPlayerInit
    /\ visualizer = AudioVisualizerInit
    /\ now = 0
    /\ calls = 0
    /\ log = <<>>

\* frequencyData[i] / 255.0 and (timeData[i] - 128) / 128.0
ByteToMagnitude(b) == (b * ONE) \div 255
ByteToSample(b) == ((b - 128) * ONE) \div 128

\* the first n elements of arr
RECURSIVE Take(_, _)
Take(arr, n) ==
    IF n <= 0 \/ arr = <<>> THEN <<>>
    ELSE IF Head(arr).n <= n THEN <<Head(arr)>> \o Take(Tail(arr), n - Head(arr).n)
    ELSE <<[n |-> n, v |-> Head(arr).v]>>

\* floatFreqData: every element of frequencyData is converted
FloatFreqData(frequencyData) ==
    [k \in 1..Len(frequencyData) |->
        [n |-> frequencyData[k].n, v |-> ByteToMagnitude(frequencyData[k].v)]]

\* floatTimeData: it has timeData's length, the conversion loop runs over
\* frequencyData's indices, and an element the loop does not reach stays 0
FloatTimeData(frequencyData, timeData) ==
    LET reached == Take(timeData, Length(frequencyData))
        converted == [k \in 1..Len(reached) |->
                        [n |-> reached[k].n, v |-> ByteToSample(reached[k].v)]]
        left == Length(timeData) - Length(reached)
    IN IF left > 0 THEN converted \o <<[n |-> left, v |-> 0]>> ELSE converted

\* the check for audio content taking only digital silence for silence
NoAudioContentExactZero(floatFreqData) ==
    SumRange(floatFreqData, 0, Length(floatFreqData)) = 0

\* the check for actual audio content: energyLevel < 0.001
NoAudioContent(floatFreqData) ==
    FLt(FDivN(SumRange(floatFreqData, 0, Length(floatFreqData)), Length(floatFreqData)),
        ONE \div 1000)

\* the feature vector once the beat result, the tempo and the rhythm strength are
\* written into analyze's vector (lines 579-590)
MergeFeatures(features, result, tempo, strength) ==
    [features EXCEPT
        !.beat = result.beat,
        !.kick = result.kick,
        !.snare = result.snare,
        !.hihat = result.hihat,
        !.beatConfidence = result.confidence,
        !.tempo = tempo,
        !.rhythmStrength = strength]

\* PublishFeatures with the visual effects updated from analyze's vector, before
\* the beat result, the tempo and the rhythm strength are written into it
PublishFeaturesBeforeMerge(a, b, t, r, ve, hs, features, clocks) ==
    [an |-> a.an, bd |-> b.bd, tt |-> t.tt, ra |-> r.ra,
     ve |-> AdvancedVisualEffects_update(ve, a.features),
     hs |-> updateHistories(hs, features, clocks.now),
     features |-> features]

\* the histories and the visual effects are updated from the finished vector
\* (lines 593-596); a, b, t, r are what analyze, process, the tempo tracker's update
\* and the rhythm analyzer's analyze returned
PublishFeatures(a, b, t, r, ve, hs, features, clocks) ==
    [an |-> a.an, bd |-> b.bd, tt |-> t.tt, ra |-> r.ra,
     ve |-> AdvancedVisualEffects_update(ve, features),
     hs |-> updateHistories(hs, features, clocks.now),
     features |-> features]

\* the tempo tracker sees the beat result of this tick (line 587)
TrackTempoThen(a, b, t, r, ve, hs, clocks) ==
    PublishFeatures(a, b, t, r, ve, hs,
                    MergeFeatures(a.features, b.result, t.tempo, r.strength), clocks)

TrackTempo(a, b, tt, r, ve, hs, clocks) ==
    TrackTempoThen(a, b, TempoTracker_update(tt, b.result, clocks.tempo), r, ve, hs, clocks)

\* the stages processAudioData runs on a tick that has audio content; clocks.now is
\* performance.now() at line 575, clocks.kick, .snare, .hihat and .tempo are its
\* values inside the detectors and the tracker.
\* [an, bd, tt, ra, ve, hs |-> the components after the tick, features |-> audioFeatures]
Pipeline(an, bd, tt, ra, ve, hs, floatFreqData, floatTimeData, clocks) ==
    TrackTempo(analyze(an, floatFreqData, floatTimeData),
               process(bd, floatFreqData, clocks.now, clocks),
               tt, RhythmAnalyzer_analyze(ra, floatFreqData), ve, hs, clocks)

\* processAudioData letting the visual effects decay on a tick without audio content
processAudioDataDecaying(an, bd, tt, ra, ve, hs, frequencyData, timeData, clocks) ==
    LET floatFreqData == FloatFreqData(frequencyData)
        floatTimeData == FloatTimeData(frequencyData, timeData)
    IN IF NoAudioContent(floatFreqData)
       THEN [an |-> an, bd |-> bd, tt |-> tt, ra |-> ra,
             ve |-> AdvancedVisualEffects_update(ve, ZeroFeatures), hs |-> hs,
             features |-> ZeroFeatures]
       ELSE Pipeline(an, bd, tt, ra, ve, hs, floatFreqData, floatTimeData, clocks)

\* processAudioData(frequencyData, timeData)
\* [an, bd, tt, ra, ve, hs |-> the components after the tick, features |-> audioFeatures]
processAudioData(an, bd, tt, ra, ve, hs, frequencyData, timeData, clocks) ==
    LET floatFreqData == FloatFreqData(frequencyData)
        floatTimeData == FloatTimeData(frequencyData, timeData)
    IN IF NoAudioContent(floatFreqData)
       THEN [an |-> an, bd |-> bd, tt |-> tt, ra |-> ra, ve |-> ve, hs |-> hs,
             features |-> ZeroFeatures]
       ELSE Pipeline(an, bd, tt, ra, ve, hs, floatFreqData, floatTimeData, clocks)

(***************************************************************************)
(* Specification Spec: the visualizer's ticks.  Each tick the host hands   *)
(* processAudioData one pair of byte buffers.  The stages of one tick read *)
(* the same clock value; SpecBeat and SpecTwin let the readings differ.    *)
(***************************************************************************)
MaxTicks == 4

\* the length of the buffers the host supplies (generateTestAudioData: 1024)
TickBins == 1024

\* byte buffers: digital silence, a faint signal in the lowest 16 bins, a quiet
\* and a loud full-band signal
SilentBytes == <<[n |-> TickBins, v |-> 0]>>
FaintBytes == <<[n |-> 16, v |-> 10], [n |-> TickBins - 16, v |-> 0]>>
QuietBytes == <<[n |-> TickBins, v |-> 26]>>
LoudBytes == <<[n |-> TickBins, v |-> 255]>>
TickFrequencyData == {SilentBytes, FaintBytes, QuietBytes, LoudBytes}

\* a square wave around the centre value 128
SquareBytes == <<[n |-> TickBins \div 2, v |-> 64], [n |-> TickBins \div 2, v |-> 192]>>
TickTimeData == {SquareBytes}

\* the time between two ticks, ms
TickSteps == {150, 300}

Init ==
    /\ Constructed
    /\ input = [frequencyData |-> <<>>, timeData |-> <<>>, currentTime |-> 0]
    /\ output = ZeroFeatures

\* performAdvancedAudioAnalysis at the time t: the host's buffers frequencyData and
\* timeData (the analyser's, the audio service's or the test mode's) go through
\* processAudioData; the case that no source has data is left out
performAdvancedAudioAnalysis(frequencyData, timeData, t) ==
    \E r \in {processAudioData(audioAnalyzer, beatDetector, tempoTracker,
                               rhythmAnalyzer, visualEffects, histories,
                               frequencyData, timeData,
                               [now |-> t, kick |-> t, snare |-> t, hihat |-> t,
                                tempo |-> t])} :
       /\ audioAnalyzer' = r.an
       /\ beatDetector' = r.bd
       /\ tempoTracker' = r.tt
       /\ rhythmAnalyzer' = r.ra
       /\ visualEffects' = r.ve
       /\ histories' = r.hs
       /\ audioFeatures' = r.features
       /\ output' = r.features
       /\ now' = t
       /\ input' = [frequencyData |-> frequencyData, timeData |-> timeData,
                    currentTime |-> t]
       /\ log' = Append(log, [time |-> t, beat |-> r.features.beat,
                              kick |-> r.features.kick, snare |-> r.features.snare,
                              hihat |-> r.features.hihat])

\* the analysis runs on the buffers frequencyData and timeData, step ms after the
\* previous tick
RunTick(frequencyData, timeData, step) ==
    /\ performAdvancedAudioAnalysis(frequencyData, timeData, now + step)
    /\ calls' = calls + 1
    /\ UNCHANGED <<twin, audioPlayer, visualizer>>

\* one animation tick with the buffers frequencyData and timeData, step ms after
\* the previous one
Tick(frequencyData, timeData, step) ==
    /\ calls < MaxTicks
    /\ RunTick(frequencyData, timeData, step)

Next ==
    \E frequencyData \in TickFrequencyData, timeData \in TickTimeData, step \in TickSteps :
        Tick(frequencyData, timeData, step)

Spec == Init /\ [][Next]_vars

(***************************************************************************)
(* Specification SpecBeat: AdvancedBeatDetector.process called directly,   *)
(* with non-decreasing timestamps.  The call made `step` ms after the      *)
(* previous one ended gets that time as its timestamp; the drum detectors  *)
(* read the clock `delay` ms later.                                        *)
(***************************************************************************)
MaxBeatCalls == 4

BeatBins == 512
QuietSpectrum == <<[n |-> BeatBins, v |-> ONE \div 10]>>
LoudSpectrum == <<[n |-> BeatBins, v |-> ONE]>>
BeatSpectra == {QuietSpectrum, LoudSpectrum}
BeatSteps == {95, 130}
BeatDelays == {0, 15}

BeatInit ==
    /\ Constructed
    /\ input = [spectrum |-> <<>>, currentTime |-> 0]
    /\ output = NoBeatResult

ProcessCall(spectrum, step, delay) ==
    /\ calls < MaxBeatCalls
    /\ \E t \in {now + step} :
       \E r \in {process(beatDetector, spectrum, t,
                         [kick |-> t + delay, snare |-> t + delay, hihat |-> t + delay])} :
          /\ beatDetector' = r.bd
          /\ output' = r.result
          /\ now' = t + delay
          /\ input' = [spectrum |-> spectrum, currentTime |-> t]
          /\ log' = Append(log, [time |-> t, beat |-> r.result.beat,
                                 kick |-> r.result.kick, snare |-> r.result.snare,
                                 hihat |-> r.result.hihat])
    /\ calls' = calls + 1
    /\ UNCHANGED <<audioAnalyzer, tempoTracker, rhythmAnalyzer, visualEffects, histories,
                   audioFeatures, twin, audioPlayer, visualizer>>

BeatNext ==
    \E spectrum \in BeatSpectra, step \in BeatSteps, delay \in BeatDelays :
        ProcessCall(spectrum, step, delay)

SpecBeat == BeatInit /\ [][BeatNext]_vars

(***************************************************************************)
(* Specification SpecTempo: TempoTracker.update called directly.  Each     *)
(* call happens `step` ms after the previous one and reads that clock.     *)
(***************************************************************************)
MaxTempoCalls == 9

TempoInputs ==
    {[beat |-> TRUE, step |-> 250], [beat |-> TRUE, step |-> 500],
     [beat |-> FALSE, step |-> 250]}

TempoInit ==
    /\ Constructed
    /\ input = [beat |-> FALSE, clock |-> 0]
    /\ output = 0

UpdateCall(in) ==
    /\ calls < MaxTempoCalls
    /\ \E r \in {TempoTracker_update(tempoTracker, [NoBeatResult EXCEPT !.beat = in.beat],
                                     now + in.step)} :
          /\ tempoTracker' = r.tt
          /\ output' = r.tempo
    /\ now' = now + in.step
    /\ input' = [beat |-> in.beat, clock |-> now + in.step]
    /\ log' = Append(log, [time |-> now + in.step, beat |-> in.beat, kick |-> FALSE,
                           snare |-> FALSE, hihat |-> FALSE])
    /\ calls' = calls + 1
    /\ UNCHANGED <<audioAnalyzer, beatDetector, rhythmAnalyzer, visualEffects, histories,
                   audioFeatures, twin, audioPlayer, visualizer>>

TempoNext == \E in \in TempoInputs : UpdateCall(in)

SpecTempo == TempoInit /\ [][TempoNext]_vars

(***************************************************************************)
(* Specification SpecAnalyzer: ProfessionalAudioAnalyzer.analyze and       *)
(* AdvancedBeatDetector.process called directly with one spectrum.         *)
(***************************************************************************)
MaxAnalyzeCalls == 3

Zeros(length) == <<[n |-> length, v |-> 0]>>
HalfSpectrum == <<[n |-> 512, v |-> ONE \div 2]>>
BassSpectrum == <<[n |-> 16, v |-> ONE], [n |-> 496, v |-> 0]>>
TrebleSpectrum == <<[n |-> 496, v |-> 0], [n |-> 16, v |-> ONE]>>
\* new Float32Array(0)
EmptyArray == <<>>
AnalyzerSpectra ==
    {EmptyArray, Zeros(128), Zeros(512), Zeros(1024), Zeros(2048), HalfSpectrum,
     BassSpectrum, TrebleSpectrum}

\* time-domain buffers of a given length: silence, and a square wave of amplitude 0.5
FlatSamples(length) == <<[n |-> length, v |-> 0]>>
SquareSamples(length) ==
    <<[n |-> length \div 2, v |-> 0 - (ONE \div 2)],
      [n |-> length - (length \div 2), v |-> ONE \div 2]>>
SampleShapes == {"flat", "square"}
Samples(shape, length) ==
    IF length = 0 THEN EmptyArray
    ELSE IF shape = "flat" THEN FlatSamples(length) ELSE SquareSamples(length)

AnalyzeSteps == {300}

AnalyzerInit0 ==
    /\ Constructed
    /\ input = [frequencyData |-> <<>>, timeData |-> <<>>, currentTime |-> 0]
    /\ output = [features |-> ZeroFeatures, result |-> NoBeatResult]

DirectCall(frequencyData, shape) ==
    /\ calls < MaxAnalyzeCalls
    /\ \E step \in AnalyzeSteps :
       \E t \in {now + step} :
       \E timeData \in {Samples(shape, Length(frequencyData))} :
       \E a \in {analyze(audioAnalyzer, frequencyData, timeData)} :
       \E b \in {process(beatDetector, frequencyData, t,
                         [kick |-> t, snare |-> t, hihat |-> t])} :
          /\ audioAnalyzer' = a.an
          /\ beatDetector' = b.bd
          /\ output' = [features |-> a.features, result |-> b.result]
          /\ input' = [frequencyData |-> frequencyData, timeData |-> timeData,
                       currentTime |-> t]
          /\ now' = t
          /\ log' = Append(log, [time |-> t, beat |-> b.result.beat,
                                 kick |-> b.result.kick, snare |-> b.result.snare,
                                 hihat |-> b.result.hihat])
    /\ calls' = calls + 1
    /\ UNCHANGED <<tempoTracker, rhythmAnalyzer, visualEffects, histories, audioFeatures,
                   twin, audioPlayer, visualizer>>

AnalyzerNext ==
    \E frequencyData \in AnalyzerSpectra, shape \in SampleShapes :
        DirectCall(frequencyData, shape)

SpecAnalyzer == AnalyzerInit0 /\ [][AnalyzerNext]_vars

(***************************************************************************)
(* Specification SpecRhythm: RhythmAnalyzer.analyze called directly.  log  *)
(* holds the numbers of the calls that were given the loud spectrum.       *)
(***************************************************************************)
MaxRhythmCalls == 18
MaxLoudCalls == 4

RhythmInit ==
    /\ Constructed
    /\ input = <<>>
    /\ output = 0

RhythmCall(spectrum) ==
    /\ calls < MaxRhythmCalls
    /\ spectrum = LoudSpectrum => Len(log) < MaxLoudCalls
    /\ \E r \in {RhythmAnalyzer_analyze(rhythmAnalyzer, spectrum)} :
          /\ rhythmAnalyzer' = r.ra
          /\ output' = r.strength
    /\ input' = spectrum
    /\ log' = IF spectrum = LoudSpectrum THEN Append(log, calls + 1) ELSE log
    /\ calls' = calls + 1
    /\ UNCHANGED <<audioAnalyzer, beatDetector, tempoTracker, visualEffects, histories,
                   audioFeatures, now, twin, audioPlayer, visualizer>>

RhythmNext == \E spectrum \in BeatSpectra : RhythmCall(spectrum)

SpecRhythm == RhythmInit /\ [][RhythmNext]_vars

(***************************************************************************)
(* Specification SpecTwin: two fresh sets of analyzer, detector and        *)
(* tracker are fed the same (frequency, time, timestamp) tuples.  The      *)
(* first set is the visualizer's own components, the second is twin.  Each *)
(* set runs on its own: its detectors and tracker read the wall clock      *)
(* delays[1] (first set) and delays[2] (second set) ms after the tuple's   *)
(* timestamp.                                                              *)
(***************************************************************************)
MaxTwinCalls == 4

TwinDelays == {<<0, 0>>, <<0, 15>>, <<15, 0>>}

\* a, b, t are what analyze, process and the tempo tracker's update returned
SetAfter(a, b, t) ==
    [audioAnalyzer |-> a.an, beatDetector |-> b.bd, tempoTracker |-> t.tt,
     output |-> [features |-> a.features, result |-> b.result, tempo |-> t.tempo]]

FeedTracker(a, b, tt, clock) ==
    SetAfter(a, b, TempoTracker_update(tt, b.result, clock))

\* one tuple through one set
\* [audioAnalyzer, beatDetector, tempoTracker |-> the set after it, output |-> ...]
FeedSet(set, frequencyData, timeData, timestamp, clock) ==
    FeedTracker(analyze(set.audioAnalyzer, frequencyData, timeData),
                process(set.beatDetector, frequencyData, timestamp,
                        [kick |-> clock, snare |-> clock, hihat |-> clock]),
                set.tempoTracker, clock)

TwinInit ==
    /\ Constructed
    /\ input = [frequencyData |-> <<>>, timeData |-> <<>>, currentTime |-> 0]
    /\ output = SetInit.output

FeedBoth(frequencyData, step, delays) ==
    /\ calls < MaxTwinCalls
    /\ \E t \in {now + step} :
       \E timeData \in {FlatSamples(Length(frequencyData))} :
       \E first \in {FeedSet([audioAnalyzer |-> audioAnalyzer, beatDetector |-> beatDetector,
                              tempoTracker |-> tempoTracker, output |-> output],
                             frequencyData, timeData, t, t + delays[1])} :
       \E second \in {FeedSet(twin, frequencyData, timeData, t, t + delays[2])} :
          /\ audioAnalyzer' = first.audioAnalyzer
          /\ beatDetector' = first.beatDetector
          /\ tempoTracker' = first.tempoTracker
          /\ output' = first.output
          /\ twin' = second
          /\ input' = [frequencyData |-> frequencyData, timeData |-> timeData,
                       currentTime |-> t]
          /\ now' = t
          /\ log' = Append(log, [time |-> t, beat |-> first.output.result.beat,
                                 kick |-> first.output.result.kick,
                                 snare |-> first.output.result.snare,
                                 hihat |-> first.output.result.hihat])
    /\ calls' = calls + 1
    /\ UNCHANGED <<rhythmAnalyzer, visualEffects, histories, audioFeatures, audioPlayer, visualizer>>

TwinNext ==
    \E frequencyData \in BeatSpectra, step \in BeatSteps, delays \in TwinDelays :
        FeedBoth(frequencyData, step, delays)

SpecTwin == TwinInit /\ [][TwinNext]_vars

(***************************************************************************)
(* Properties of SpecBeat.                                                 *)
(***************************************************************************)
\* the gap, in ms, between the timestamps of the i-th and the j-th call
Gap(i, j) == log[j].time - log[i].time

\* C1: over calls to AdvancedBeatDetector.process with non-decreasing
\* timestamps, any two calls that return beat = true have timestamps at
\* least 250 ms apart.
C1_BeatRefractory ==
    \A i, j \in 1..Len(log) :
        (i < j /\ log[i].beat /\ log[j].beat) => Gap(i, j) >= 250

\* C1 witness: two calls returned a beat less than two windows apart and a
\* call between them did not.
C1_TwoBeats ==
    \E i, j, k \in 1..Len(log) :
        /\ i < k /\ k < j
        /\ log[i].beat /\ log[j].beat /\ ~log[k].beat
        /\ Gap(i, j) < 2 * 250

\* C2: any two ticks on which the kick (snare, hi-hat) detector reports true
\* have tick timestamps at least 200 (180, 120) ms apart, whatever the
\* processing delay between the tick's timestamp and the detector's own
\* reading of the clock.
C2_DrumRefractoryOnTickTime ==
    \A i, j \in 1..Len(log) :
        i < j =>
            /\ (log[i].kick /\ log[j].kick) => Gap(i, j) >= 200
            /\ (log[i].snare /\ log[j].snare) => Gap(i, j) >= 180
            /\ (log[i].hihat /\ log[j].hihat) => Gap(i, j) >= 120

(***************************************************************************)
(* Properties of SpecTwin.                                                 *)
(***************************************************************************)
\* C3: two fresh sets of analyzer, beat detector and tempo tracker fed the
\* same (frequency, time, timestamp) tuples return the same feature vector,
\* the same beat, kick, snare and hi-hat flags, the same confidence and the
\* same tempo on every tick.
C3_TwinOutputsEqual == output = twin.output

(***************************************************************************)
(* Properties of Spec.                                                     *)
(***************************************************************************)
\* the host's frequency bytes are silent: their mean magnitude, each byte taken
\* as byte / 255, is below 0.001 (all-zero bytes included)
SilentInput(frequencyData) ==
    /\ Length(frequencyData) > 0
    /\ 1000 * SumRange(frequencyData, 0, Length(frequencyData))
          < 255 * Length(frequencyData)

\* C4: after every tick whose input is silent the visualizer's feature vector
\* is fully zeroed (all flags false; tempo, rhythmStrength, beatConfidence and
\* every energy 0), whatever was processed before.
C4_SilentTickZeroesFeatures ==
    (calls > 0 /\ SilentInput(input.frequencyData)) => audioFeatures = ZeroFeatures

\* C4 witness: a silent tick that follows a tick on which a beat was found.
C4_SilenceAfterBeat ==
    /\ calls > 1
    /\ SilentInput(input.frequencyData)
    /\ \E i \in 1..Len(log) : log[i].beat

\* C5: a silent tick leaves every retained analysis state as it was: the
\* detectors' histories and last times, the tempo tracker, the rhythm pattern
\* and its counter, the previous spectrum and flux buffer, and the
\* visual-effect pulses.
C5_SilentTickKeepsState ==
    [][(calls' = calls + 1 /\ SilentInput(input'.frequencyData))
          => retained' = retained]_vars

\* C5 witness: a silent tick has run while a kick pulse was still showing and
\* the detectors held a history and a last-beat time.
C5_SilentTickOverLiveState ==
    /\ calls > 1
    /\ SilentInput(input.frequencyData)
    /\ visualEffects.kickPulse > 0
    /\ beatDetector.lastBeatTime > 0
    /\ beatDetector.energyBuffer # <<>>
    /\ audioAnalyzer.previousSpectrum # <<>>
    /\ rhythmAnalyzer.beatCounter > 0
    /\ histories.beatHistory # <<>>

(***************************************************************************)
(* Properties of SpecAnalyzer.                                             *)
(***************************************************************************)
AllZero(arr) ==
    /\ Length(arr) > 0
    /\ \A k \in 1..Len(arr) : arr[k].v = 0

\* C6: a direct call of analyze and process with an all-zero frequency array
\* of any length the host can supply gives energy 0, every band energy 0, and
\* onset, transient and beat false (transient is asked for only when the
\* time-domain array is all zero too).
C6_ZeroSpectrumZeroFeatures ==
    (calls > 0 /\ AllZero(input.frequencyData)) =>
        /\ output.features.energy = 0
        /\ output.features.subBassEnergy = 0
        /\ output.features.bassEnergy = 0
        /\ output.features.midEnergy = 0
        /\ output.features.highMidEnergy = 0
        /\ output.features.trebleEnergy = 0
        /\ output.features.presenceEnergy = 0
        /\ output.features.brillianceEnergy = 0
        /\ ~output.features.onset
        /\ (AllZero(input.timeData) => ~output.features.transient)
        /\ ~output.result.beat

\* C9: the spectral flux the analyzer returns is never below 0, and it is 0
\* on the first frame and on a frame whose length differs from the previous
\* frame's.
C9_FluxNonNegative ==
    [][(calls' = calls + 1) =>
          /\ output'.features.spectralFlux >= 0
          /\ Length(input'.frequencyData) # Length(input.frequencyData)
                => output'.features.spectralFlux = 0]_vars

\* C9 witness: a frame that rose above the previous one in some bins and fell
\* below it in the others; only the rises are counted.
C9_FluxRectified ==
    /\ calls > 1
    /\ input.frequencyData = HalfSpectrum
    /\ output.features.spectralFlux > 0
    /\ output.features.spectralFlux < 256 * ONE

(***************************************************************************)
(* Properties of SpecTempo.                                                *)
(***************************************************************************)
\* C7: the tempo TempoTracker.update returns is 0 or lies in [60, 200] BPM.
C7_TempoInRange ==
    output = 0 \/ (output >= 60 * ONE /\ output <= 200 * ONE)

\* C7 witness: a tempo is reported after beats that came at uneven intervals,
\* one of them too short to be counted.
C7_TempoFromUnevenBeats ==
    /\ output > 0
    /\ output # 120 * ONE
    /\ \E i \in 1..(Len(log) - 1) : log[i].beat /\ log[i + 1].beat /\ Gap(i, i + 1) = 250

\* the clock values of the updates that carried a beat
BeatTimes == {log[i].time : i \in {k \in 1..Len(log) : log[k].beat}}

\* every beat but the first came exactly 500 ms after the beat before it
Every500 ==
    \A t \in BeatTimes :
        \/ \A u \in BeatTimes : u >= t
        \/ /\ t - 500 \in BeatTimes
           /\ \A u \in BeatTimes : ~(u > t - 500 /\ u < t)

\* C8: when the beats of a fresh tracker come exactly 500 ms apart, from the
\* 8th beat on the tempo returned is within 2 BPM of 120.
C8_Converges120 ==
    (Every500 /\ Cardinality(BeatTimes) >= 8) =>
        (output >= 118 * ONE /\ output <= 122 * ONE)

\* C8 witness: eight beats have come, each 500 ms after the one before.
C8_EightBeats == Every500 /\ Cardinality(BeatTimes) >= 8

RECURSIVE Power(_, _)
Power(b, n) == IF n = 0 THEN 1 ELSE b * Power(b, n - 1)

\* (tenths / 10) ^ n
DecayedPulse(tenths, n) == (Power(tenths, n) * ONE) \div Power(10, n)

\* the ticks on which the flag was reported
KickTicks == {i \in 1..Len(log) : log[i].kick}
SnareTicks == {i \in 1..Len(log) : log[i].snare}
HihatTicks == {i \in 1..Len(log) : log[i].hihat}

\* the last tick of a non-empty set of ticks
LastTick(ticks) == CHOOSE i \in ticks : \A j \in ticks : j <= i

\* pulse is decayFactor ^ n, n being the number of ticks since the last tick of
\* ticks; each multiplication may lose one unit of the last digit kept
DecayedSince(pulse, tenths, ticks) ==
    ticks # {} =>
        LET n == Len(log) - LastTick(ticks)
        IN /\ pulse <= DecayedPulse(tenths, n)
           /\ pulse >= DecayedPulse(tenths, n) - n

InUnitRange(x) == x >= 0 /\ x <= ONE

\* C11: N ticks after the last kick (snare, hi-hat) event the pulse equals
\* 0.8^N (0.7^N, 0.6^N), and every pulse and the flash intensity lie in [0, 1].
C11_PulseDecaysEveryTick ==
    /\ DecayedSince(visualEffects.kickPulse, 8, KickTicks)
    /\ DecayedSince(visualEffects.snarePulse, 7, SnareTicks)
    /\ DecayedSince(visualEffects.hihatPulse, 6, HihatTicks)
    /\ InUnitRange(visualEffects.kickPulse)
    /\ InUnitRange(visualEffects.snarePulse)
    /\ InUnitRange(visualEffects.hihatPulse)
    /\ InUnitRange(visualEffects.flashIntensity)

(***************************************************************************)
(* Zero-length input (SpecAnalyzer).                                       *)
(***************************************************************************)
\* no element of the buffer is NaN
NoNaNIn(buf) == \A k \in 1..Len(buf) : ~IsNaN(buf[k])

\* C12: given zero-length frequency and time arrays the analysis returns a
\* vector whose every numeric field is 0 (never NaN) and whose every flag is
\* false, and no NaN enters a history buffer.
C12_ZeroLengthGivesZeros ==
    (calls > 0 /\ input.frequencyData = EmptyArray /\ input.timeData = EmptyArray) =>
        /\ output.features = ZeroFeatures
        /\ ~output.result.beat /\ ~output.result.kick
        /\ ~output.result.snare /\ ~output.result.hihat
        /\ output.result.confidence = 0
        /\ NoNaNIn(audioAnalyzer.spectralFluxBuffer)
        /\ NoNaNIn(beatDetector.energyBuffer)
        /\ NoNaNIn(beatDetector.bassBuffer)
        /\ NoNaNIn(beatDetector.kickDetector.kickHistory)
        /\ NoNaNIn(beatDetector.snareDetector.snareHistory)
        /\ NoNaNIn(beatDetector.hihatDetector.hihatHistory)

\* a number that is neither NaN nor infinite and not below 0
NonNegativeNumber(x) == x >= 0 /\ x < Infinity

\* C13: for every spectrum length and content, every band energy and every
\* ratio-derived feature analyze returns (harmonicContent included) is a
\* non-negative number; a division by a zero denominator yields 0.
C13_DivisionsGuarded ==
    calls > 0 =>
        /\ NonNegativeNumber(output.features.energy)
        /\ NonNegativeNumber(output.features.subBassEnergy)
        /\ NonNegativeNumber(output.features.bassEnergy)
        /\ NonNegativeNumber(output.features.midEnergy)
        /\ NonNegativeNumber(output.features.highMidEnergy)
        /\ NonNegativeNumber(output.features.trebleEnergy)
        /\ NonNegativeNumber(output.features.presenceEnergy)
        /\ NonNegativeNumber(output.features.brillianceEnergy)
        /\ NonNegativeNumber(output.features.zeroCrossingRate)
        /\ NonNegativeNumber(output.features.harmonicContent)

(***************************************************************************)
(* Specification SpecBuffers: the visualizer's ticks when the host's two   *)
(* buffers are of either of two lengths, not always the same one.          *)
(***************************************************************************)
BufferLengths == {TickBins \div 2, TickBins}

\* a quiet and a loud full-band signal of the given length
FrequencyBytes(length) == {<<[n |-> length, v |-> 26]>>, <<[n |-> length, v |-> 255]>>}

\* a square wave of the given length
TimeBytes(length) ==
    <<[n |-> length \div 2, v |-> 64], [n |-> length - (length \div 2), v |-> 192]>>

BuffersNext ==
    \E freqLength \in BufferLengths, timeLength \in BufferLengths, step \in {300} :
        \E frequencyData \in FrequencyBytes(freqLength) :
            Tick(frequencyData, TimeBytes(timeLength), step)

SpecBuffers == Init /\ [][BuffersNext]_vars

\* C14: a tick whose frequency and time buffers differ in length is rejected:
\* no feature vector is computed from the pair and no analysis state is
\* updated.
C14_MismatchRejected ==
    [][(calls' = calls + 1
          /\ Length(input'.frequencyData) # Length(input'.timeData))
       => (retained' = retained /\ audioFeatures' = audioFeatures)]_vars

(***************************************************************************)
(* A long run of ticks: after FreeTicks ticks of either level the signal   *)
(* alternates between the quiet and the loud spectrum, 200 ms apart, so    *)
(* that every loud tick is a beat and every history buffer fills up.       *)
(***************************************************************************)
MaxLongTicks == 46
FreeTicks == 2
LongFrequencyData == {QuietBytes, LoudBytes}
LongSteps == {200}

LongTick(frequencyData, step) ==
    /\ calls < MaxLongTicks
    /\ calls >= FreeTicks => frequencyData # input.frequencyData
    /\ RunTick(frequencyData, SquareBytes, step)

LongNext ==
    \E frequencyData \in LongFrequencyData, step \in LongSteps :
        LongTick(frequencyData, step)

SpecLong == Init /\ [][LongNext]_vars

\* new is old after one push: the pushed value is last, and old's first entry is
\* gone when old already held cap entries
PushedOnce(old, new, cap) ==
    /\ Len(new) >= 1
    /\ Len(new) <= cap
    /\ new = Append(IF Len(old) >= cap THEN Tail(old) ELSE old, new[Len(new)])

Sensitivities == {0, ONE \div 2, ONE}

\* configure(options) with options.sensitivity defined
Configure(sensitivity) ==
    /\ beatDetector' = setSensitivity(beatDetector, sensitivity)
    /\ UNCHANGED <<audioAnalyzer, tempoTracker, rhythmAnalyzer, visualEffects, histories,
                   audioFeatures, now, calls, input, output, log, twin, audioPlayer, visualizer>>

SensitivityNext ==
    \/ \E sensitivity \in Sensitivities : Configure(sensitivity)
    \/ \E spectrum \in BeatSpectra, step \in BeatSteps : ProcessCall(spectrum, step, 0)

SpecSensitivity == BeatInit /\ [][SensitivityNext]_vars

\* the average of a history buffer
Average(buf) == FDivN(SumSeq(buf), Len(buf))

\* C16: the configured sensitivity determines the threshold multiplier of the beat
\* decision: a process call reports a beat exactly when the energy exceeds
\* beatThreshold (1.0 + (1 - sensitivity) * 0.8) times the average of the energy
\* history and the refractory time has passed.
C16_SensitivityGovernsBeat ==
    [][calls' = calls + 1 =>
         (output'.beat <=>
             /\ FGt(output'.energy,
                    FMul(beatDetector.beatThreshold, Average(beatDetector'.energyBuffer)))
             /\ BeatRefractoryOver(input'.currentTime, beatDetector.lastBeatTime))]_vars

\* C17: for every non-empty frequency array with magnitudes in [0,1] and time array
\* with samples in [-1,1], the spectralCentroid, spectralRolloff and
\* zeroCrossingRate that analyze returns all lie in [0, 1].
C17_SpectralFeaturesInUnitRange ==
    (calls > 0 /\ Length(input.frequencyData) > 0 /\ Length(input.timeData) > 0)
    => /\ InUnitRange(output.features.spectralCentroid)
       /\ InUnitRange(output.features.spectralRolloff)
       /\ InUnitRange(output.features.zeroCrossingRate)

\* analyze has returned a centroid and a rolloff in the top tenth of the range,
\* from a spectrum whose energy sits in its last bins, and a zero crossing
C17_TrebleAnalyzed ==
    /\ calls > 0
    /\ input.frequencyData = TrebleSpectrum
    /\ output.features.spectralCentroid > (9 * ONE) \div 10
    /\ output.features.spectralRolloff > (9 * ONE) \div 10
    /\ output.features.spectralRolloff < ONE
    /\ output.features.zeroCrossingRate > 0

(***************************************************************************)
(* Specification SpecPlayer: the audio player under playTrack,             *)
(* setPlaylist, the shuffle and repeat buttons and the end of the track    *)
(* that is playing.                                                        *)
(***************************************************************************)
MaxPlayerOps == 5
MaxTracks == 3

TrackIds == 1..MaxTracks
\* the playlists callers hand over: the first n tracks of the library
Playlists == {[i \in 1..n |-> i] : n \in 0..MaxTracks}

PlayerInit ==
    /\ Constructed
    /\ input = [op |-> "constructor"]
    /\ output = AudioPlayerInit.audio

\* the player becomes p after the operation described by in
PlayerStep(p, in) ==
    /\ calls < MaxPlayerOps
    /\ audioPlayer' = p
    /\ input' = in
    /\ output' = p.audio
    /\ calls' = calls + 1
    /\ UNCHANGED <<retained, audioFeatures, now, log, twin, visualizer>>

PlayTrack(track, playlist) ==
    PlayerStep(playTrack(audioPlayer, track, playlist),
               [op |-> "playTrack", track |-> track, playlist |-> playlist])

SetPlaylist(tracks, startIndex) ==
    PlayerStep(setPlaylist(audioPlayer, tracks, startIndex),
               [op |-> "setPlaylist", tracks |-> tracks, startIndex |-> startIndex])

ToggleShuffle(shuffled) ==
    PlayerStep(toggleShuffle(audioPlayer, shuffled), [op |-> "toggleShuffle"])

ToggleRepeat == PlayerStep(toggleRepeat(audioPlayer), [op |-> "toggleRepeat"])

\* the track that is playing reaches its end
TrackEnd ==
    /\ audioPlayer.audio.playing
    /\ PlayerStep(handleTrackEnd(audioPlayer), [op |-> "ended"])

PlayerNext ==
    \/ \E track \in TrackIds, playlist \in Playlists : PlayTrack(track, playlist)
    \/ \E tracks \in Playlists, startIndex \in 0..(MaxTracks - 1) :
          startIndex < Max(Len(tracks), 1) /\ SetPlaylist(tracks, startIndex)
    \/ \E shuffled \in Shuffles(Len(audioPlayer.playlist)) : ToggleShuffle(shuffled)
    \/ ToggleRepeat
    \/ TrackEnd

SpecPlayer == PlayerInit /\ [][PlayerNext]_vars

\* the play order: the shuffled order when shuffle is on, else the playlist's order
PlayOrder(p) ==
    IF p.isShuffled THEN p.shuffledIndices ELSE [i \in 1..Len(p.playlist) |-> i - 1]

\* the current track is the last one of the play order
LastInPlayOrder(p) == indexOf(PlayOrder(p), p.currentIndex) = Len(PlayOrder(p)) - 1

\* the track after the current one in play order, the first one after the last
NextInPlayOrder(p) ==
    IF Len(PlayOrder(p)) = 0 THEN Undefined
    ELSE ElementAt(p.playlist,
                   ElementAt(PlayOrder(p),
                             (indexOf(PlayOrder(p), p.currentIndex) + 1) % Len(PlayOrder(p))))

\* the play order lists every index of the playlist once
WholePlayOrder(p) ==
    /\ Len(PlayOrder(p)) = Len(p.playlist)
    /\ \A i \in 0..(Len(p.playlist) - 1) : indexOf(PlayOrder(p), i) >= 0

\* the tracks of the playlist
TracksOf(p) == {p.playlist[i] : i \in 1..Len(p.playlist)}

\* C18: when the current track ends, repeat mode 'one' restarts the same track;
\* repeat mode 'all' with a non-empty playlist loads and plays the next track in
\* play order, wrapping from the last to the first, so playback always continues
\* with a track of the playlist; repeat mode 'none' advances to the next track and
\* stops after the last one.
C18_TrackEndFollowsRepeatMode ==
    [][(calls' = calls + 1 /\ input'.op = "ended") =>
         /\ audioPlayer.repeatMode = "one" =>
               (audioPlayer'.audio.playing
                /\ audioPlayer'.audio.src = audioPlayer.audio.src)
         /\ (audioPlayer.repeatMode = "all" /\ Len(audioPlayer.playlist) > 0) =>
               /\ audioPlayer'.audio.playing
               /\ audioPlayer'.audio.src \in TracksOf(audioPlayer)
               /\ WholePlayOrder(audioPlayer) =>
                     audioPlayer'.audio.src = NextInPlayOrder(audioPlayer)
         /\ (audioPlayer.repeatMode = "none" /\ WholePlayOrder(audioPlayer)) =>
               IF LastInPlayOrder(audioPlayer) THEN ~audioPlayer'.audio.playing
               ELSE (audioPlayer'.audio.playing
                     /\ audioPlayer'.audio.src = NextInPlayOrder(audioPlayer))]_vars

\* the average detectOnset's rule compares against: the sum of the retained flux
\* values over their number, over 1 when none is retained
AverageFlux(buf) == FDivN(SumSeq(buf), Max(Len(buf), 1))

\* C19: analyze reports an onset on exactly those ticks where the tick's spectral
\* flux exceeds 1.5 times the average of the flux values retained from the previous
\* ticks and also exceeds 0.1.
C19_OnsetFollowsFlux ==
    [][calls' = calls + 1 =>
         (output'.features.onset <=>
             /\ FGt(output'.features.spectralFlux,
                    FScale(AverageFlux(audioAnalyzer.spectralFluxBuffer), 15, 10))
             /\ FGt(output'.features.spectralFlux, ONE \div 10))]_vars

(***************************************************************************)
(* Specification SpecInterval: AdvancedBeatDetector.process called every   *)
(* 125 or 250 ms, so that calls follow a beat after exactly 250 ms.        *)
(***************************************************************************)
IntervalSteps == {125, 250}

IntervalNext ==
    \E spectrum \in BeatSpectra, step \in IntervalSteps : ProcessCall(spectrum, step, 0)

SpecInterval == BeatInit /\ [][IntervalNext]_vars

\* the variance of a history buffer
Variance(buf) == FDivN(SumSqDev(buf, Average(buf)), Len(buf))

\* 1.2 + min(0.5, 2 * variance)
AdaptiveThresholdOf(buf) == FAdd((12 * ONE) \div 10, FMin(ONE \div 2, FScale(Variance(buf), 2, 1)))

\* C20: process returns a beat on exactly those calls where the total energy exceeds
\* adaptiveThreshold times the average of the energy history, with adaptiveThreshold
\* = 1.2 + min(0.5, 2 * variance of the energy history), and at least 250 ms, 250
\* included, have passed since the last beat.
C20_BeatAtLeast250Apart ==
    [][calls' = calls + 1 =>
         (output'.beat <=>
             /\ FGt(output'.energy,
                    FMul(AdaptiveThresholdOf(beatDetector'.energyBuffer),
                         Average(beatDetector'.energyBuffer)))
             /\ input'.currentTime - beatDetector.lastBeatTime >= MinBeatInterval)]_vars

\* (energy / (avg * threshold) - 1) * 2 of the last process call, from the state the
\* call left
ConfidenceRatio ==
    FScale(FSub(FDiv(output.energy,
                     FMul(Average(beatDetector.energyBuffer),
                          beatDetector.adaptiveThreshold)), ONE), 2, 1)

\* C21: the confidence of every BeatResult lies in [0, 1]; on a call that fires a
\* beat it is (energy / (avg * threshold) - 1) * 2 clamped to [0, 1] and greater
\* than 0; on a call that fires no beat it is exactly 0.
C21_ConfidenceClamped ==
    calls > 0 =>
        /\ InUnitRange(output.confidence)
        /\ output.beat =>
              /\ output.confidence = FMax(0, FMin(ONE, ConfidenceRatio))
              /\ output.confidence > 0
        /\ ~output.beat => output.confidence = 0

\* a beat has fired whose ratio is above 1, so that the clamp has acted
C21_ClampActed ==
    /\ calls > 0
    /\ output.beat
    /\ ConfidenceRatio > ONE
    /\ output.confidence = ONE

\* C22: on every tick with audio content whose feature vector has beat, kick, snare
\* or hihat true, the flash intensity, kickPulse, snarePulse or hihatPulse is set to
\* exactly 1.0; where the flag is false the value is multiplied by 0.85, 0.8, 0.7 or
\* 0.6.
C22_EventsSetPulsesToOne ==
    [][(calls' = calls + 1 /\ ~SilentInput(input'.frequencyData)) =>
         /\ visualEffects'.flashIntensity =
               IF audioFeatures'.beat THEN ONE ELSE FScale(visualEffects.flashIntensity, 85, 100)
         /\ visualEffects'.kickPulse =
               IF audioFeatures'.kick THEN ONE ELSE FScale(visualEffects.kickPulse, 8, 10)
         /\ visualEffects'.snarePulse =
               IF audioFeatures'.snare THEN ONE ELSE FScale(visualEffects.snarePulse, 7, 10)
         /\ visualEffects'.hihatPulse =
               IF audioFeatures'.hihat THEN ONE ELSE FScale(visualEffects.hihatPulse, 6, 10)]_vars

\* 60000 / median of the stored intervals, the median of an even number of values
\* being the mean of the two middle ones
BpmOfStatisticalMedian(beatIntervals) ==
    LET sorted == SortSeq(beatIntervals, LAMBDA a, b : a < b)
        half == Len(beatIntervals) \div 2
    IN IF Len(beatIntervals) % 2 = 1 THEN (60000 * ONE) \div sorted[half + 1]
       ELSE (120000 * ONE) \div (sorted[half] + sorted[half + 1])

\* C23: the tempo tracker stores an inter-beat interval only when it implies 60 to
\* 200 BPM (300 ms to 1000 ms), and the tempo it reports is the average of the last
\* at most 8 values of 60000 / median(stored intervals), the median being the
\* statistical median for odd and for even numbers of stored intervals.
C23_TempoFromStatisticalMedian ==
    [][tempoTracker'.beatIntervals # tempoTracker.beatIntervals =>
         /\ tempoTracker'.beatIntervals[Len(tempoTracker'.beatIntervals)] >= 300
         /\ tempoTracker'.beatIntervals[Len(tempoTracker'.beatIntervals)] <= 1000
         /\ Len(tempoTracker'.beatIntervals) >= 4 =>
               /\ tempoTracker'.tempoBuffer =
                     PushCapped(tempoTracker.tempoBuffer,
                                BpmOfStatisticalMedian(tempoTracker'.beatIntervals), 8)
               /\ tempoTracker'.currentTempo = Average(tempoTracker'.tempoBuffer)]_vars

(***************************************************************************)
(* C24: the rhythm strength before and after the pattern buffer's wrap     *)
(***************************************************************************)
\* the sum of pattern[i] * pattern[i + lag] for i in 0 .. last
RECURSIVE LagSum(_, _, _)
LagSum(pattern, lag, last) ==
    IF last < 0 THEN 0
    ELSE FAdd(LagSum(pattern, lag, last - 1),
              FMul(pattern[last + 1], pattern[last + lag + 1]))

\* the largest of the sums at the lags 1 .. 7, divided by 16
LargestLagSum(pattern) ==
    LET sums == {LagSum(pattern, lag, 15 - lag) : lag \in 1..7}
    IN FDivN(CHOOSE m \in sums : \A s \in sums : m >= s, 16)

\* C24: a call of RhythmAnalyzer.analyze returns 0 as long as the write index
\* has not returned to slot 0 (fewer than 16 calls so far, this one included),
\* and from then on the largest, over the lags 1 .. 7, of the sums of
\* pattern[i] * pattern[i + lag] for i in 0 .. 15 - lag, divided by 16.
C24_StrengthIsLargestLagSum ==
    [][calls' # calls =>
         output' = IF rhythmAnalyzer'.beatCounter < 16 THEN 0
                   ELSE LargestLagSum(rhythmAnalyzer'.rhythmPattern)]_vars

\* a call after the wrap returned a strength, for a pattern that holds loud
\* and quiet energies
C24_StrengthOfMixedPattern ==
    /\ rhythmAnalyzer.beatCounter > 16
    /\ output > 0
    /\ \E i, j \in 1..16 : rhythmAnalyzer.rhythmPattern[i] # rhythmAnalyzer.rhythmPattern[j]

(***************************************************************************)
(* C25: the stages of one tick and the values they hand on                 *)
(***************************************************************************)
\* the fields of the feature vector that processAudioData writes after analyze
MergedFields == {"beat", "kick", "snare", "hihat", "beatConfidence", "tempo",
                 "rhythmStrength"}

\* C25: on every tick with audio content each stage has run exactly once on the
\* state the previous tick left: the analyzer, the beat detector, the tempo tracker
\* (fed this tick's beat result) and the rhythm analyzer; the published vector holds
\* this tick's flags, confidence, tempo and rhythm strength, and the visual effects
\* are updated from that vector.
C25_StagesOncePerTick ==
    [][(calls' = calls + 1 /\ ~SilentInput(input'.frequencyData)) =>
         \E ff \in {FloatFreqData(input'.frequencyData)},
            clocks \in {[now |-> now', kick |-> now', snare |-> now', hihat |-> now',
                         tempo |-> now']} :
         \E a \in {analyze(audioAnalyzer, ff,
                           FloatTimeData(input'.frequencyData, input'.timeData))},
            b \in {process(beatDetector, ff, now', clocks)},
            r \in {RhythmAnalyzer_analyze(rhythmAnalyzer, ff)} :
         \E t \in {TempoTracker_update(tempoTracker, b.result, now')} :
            /\ audioAnalyzer' = a.an
            /\ beatDetector' = b.bd
            /\ tempoTracker' = t.tt
            /\ rhythmAnalyzer' = r.ra
            /\ audioFeatures'.beat = b.result.beat
            /\ audioFeatures'.kick = b.result.kick
            /\ audioFeatures'.snare = b.result.snare
            /\ audioFeatures'.hihat = b.result.hihat
            /\ audioFeatures'.beatConfidence = b.result.confidence
            /\ audioFeatures'.tempo = t.tempo
            /\ audioFeatures'.rhythmStrength = r.strength
            /\ \A f \in (DOMAIN a.features) \ MergedFields :
                  audioFeatures'[f] = a.features[f]
            /\ visualEffects' = AdvancedVisualEffects_update(visualEffects, audioFeatures')]_vars

\* a tick with a beat and a kick right after a tick without, at a time when the
\* tempo and the rhythm strength are known
C25_BeatAfterNoBeat ==
    /\ Len(log) >= 2
    /\ log[Len(log)].beat /\ log[Len(log)].kick
    /\ ~log[Len(log) - 1].beat /\ ~log[Len(log) - 1].kick
    /\ audioFeatures.beat
    /\ audioFeatures.tempo > 0
    /\ audioFeatures.rhythmStrength > 0
    /\ visualEffects.kickPulse = ONE

(***************************************************************************)
(* Specification SpecLifecycle: the host calls start, stop, enableTestMode *)
(* and forceUpdate in any order, the browser runs queued frame callbacks,  *)
(* and the constructor's timer connects the audio service.  calls counts   *)
(* these steps; log grows by one entry with every analysis that runs.      *)
(***************************************************************************)
MaxLifecycleOps == 5

\* the time between two steps, ms: a call of the host, a fast frame, and a frame
\* that ends the frame counter's one-second window
CallSteps == {20}
FrameSteps == {10, 1000}
StartFindings == {"service", "test", "element"}
LifecycleFrequencyData == {LoudBytes}

\* the step took the visualizer to r.v at the time t, and the analysis ran on
\* frequencyData if r.analysed says so
LifecycleStep(r, frequencyData, t) ==
    /\ calls < MaxLifecycleOps
    /\ visualizer' = r.v
    /\ IF r.analysed
       THEN performAdvancedAudioAnalysis(frequencyData, SquareBytes, t)
       ELSE /\ now' = t
            /\ UNCHANGED <<retained, audioFeatures, input, output, log>>
    /\ calls' = calls + 1
    /\ UNCHANGED <<twin, audioPlayer>>

Start(found, frequencyData) ==
    \E step \in CallSteps :
       \E r \in {start(visualizer, now + step, found)} :
          LifecycleStep(r, frequencyData, now + step)

\* stop() also empties the histories
Stop ==
    \E step \in CallSteps :
       /\ calls < MaxLifecycleOps
       /\ visualizer' = stop(visualizer)
       /\ histories' = HistoriesInit
       /\ now' = now + step
       /\ calls' = calls + 1
       /\ UNCHANGED <<audioAnalyzer, beatDetector, tempoTracker, rhythmAnalyzer,
                      visualEffects, audioFeatures, input, output, log, twin,
                      audioPlayer>>

EnableTestMode(frequencyData) ==
    \E step \in CallSteps :
       \E r \in {enableTestMode(visualizer, now + step)} :
          LifecycleStep(r, frequencyData, now + step)

\* forceUpdate(): the analysis runs if the visualizer is active
ForceUpdate(frequencyData) ==
    \E step \in CallSteps :
       LifecycleStep([v |-> visualizer, analysed |-> visualizer.isActive],
                     frequencyData, now + step)

\* the browser runs the queued frame callback with the handle id
Frame(id, step, frequencyData) ==
    /\ id \in visualizer.pending
    /\ \E r \in {animate([visualizer EXCEPT !.pending = @ \ {id}], now + step)} :
          LifecycleStep(r, frequencyData, now + step)

\* the constructor's timer finds the application's audio service
AutoConnect ==
    /\ visualizer.analyser = "own"
    /\ \E step \in CallSteps :
          LifecycleStep([v |-> autoConnectToAudioService(visualizer), analysed |-> FALSE],
                        LoudBytes, now + step)

LifecycleNext ==
    \/ \E found \in StartFindings, frequencyData \in LifecycleFrequencyData :
          Start(found, frequencyData)
    \/ Stop
    \/ \E frequencyData \in LifecycleFrequencyData : EnableTestMode(frequencyData)
    \/ \E frequencyData \in LifecycleFrequencyData : ForceUpdate(frequencyData)
    \/ \E id \in 1..(MaxLifecycleOps + 1), step \in FrameSteps,
          frequencyData \in LifecycleFrequencyData : Frame(id, step, frequencyData)
    \/ AutoConnect

SpecLifecycle == Init /\ [][LifecycleNext]_vars

\* the limits of the adaptive quality: 8.33 ms, 33.33 ms, and the powers of two
\* from 1024 to 8192
IntervalWithinLimits ==
    /\ visualizer.analysisInterval >= 833 * (ONE \div 100)
    /\ visualizer.analysisInterval <= 3333 * (ONE \div 100)

FftSizesWithinLimits == {1024, 2048, 4096, 8192}

\* C26: the analysis interval is within [8.33, 33.33] ms in every state, and a
\* frame or call that adjusts the quality leaves the analyser's FFT size a power of
\* two within [1024, 8192].
C26_QualityWithinLimits ==
    [][/\ IntervalWithinLimits'
       /\ (\/ visualizer'.analysisInterval # visualizer.analysisInterval
           \/ (visualizer'.analyser = visualizer.analyser
                  /\ visualizer'.fftSize # visualizer.fftSize))
             => visualizer'.fftSize \in FftSizesWithinLimits]_vars

\* C27: once stop() has been called, and until start() or enableTestMode() is called,
\* no frame callback is queued and no step runs an analysis.
C27_NoAnalysisWhileStopped ==
    [][visualizer'.lifecycle = "stopped" =>
          /\ visualizer'.pending = {}
          /\ visualizer.lifecycle = "stopped" => log' = log]_vars

\* the visualizer is stopped after its loop had queued frame callbacks and run
\* analyses, and time has passed since the last analysis
C27_StoppedAfterAnalyses ==
    /\ visualizer.lifecycle = "stopped"
    /\ visualizer.animationId # Undefined
    /\ Len(log) >= 1
    /\ now > log[Len(log)].time

\* C28: in every state at most one frame callback of the visualizer's loop is queued.
C28_AtMostOnePendingFrame == Cardinality(visualizer.pending) <= 1

\* start() was called while a frame callback of a running loop was queued, and the
\* new loop's callback is the one queued now
C28_RestartedWhileRunning ==
    /\ visualizer.lifecycle = "running"
    /\ visualizer.handles >= 3
    /\ visualizer.pending = {visualizer.handles}
    /\ visualizer.frameCount = 1
    /\ calls = 2

\* C29: whenever start() or enableTestMode() was called and stop() has not been
\* called since, isActive is true and a frame callback is queued.
C29_RunningMeansLoopRuns ==
    visualizer.lifecycle = "running" =>
        visualizer.isActive /\ visualizer.pending # {}

(***************************************************************************)
(* C30: no beat without a rise of the energy                               *)
(***************************************************************************)
\* every call so far had the same total energy: the energy history holds one entry
\* per call (at most 43 calls), all equal
ConstantEnergySoFar ==
    /\ calls >= 1
    /\ Len(beatDetector.energyBuffer) = calls
    /\ \A i \in 1..Len(beatDetector.energyBuffer) :
          beatDetector.energyBuffer[i] = beatDetector.energyBuffer[1]

\* C30: a call of process on a fresh detector's first tick, or after an input whose
\* total energy was the same on every tick so far, this one included, reports no beat.
C30_NoBeatOnConstantEnergy == ConstantEnergySoFar => ~output.beat

\* the third or a later call of a constant loud input, more than 250 ms after the
\* detector's last beat time, so that only the energy test keeps the beat from firing
C30_ConstantLoudInput ==
    /\ ConstantEnergySoFar
    /\ calls >= 3
    /\ beatDetector.energyBuffer[1] = ONE
    /\ input.currentTime - beatDetector.lastBeatTime > 250
    /\ ~output.beat

====
